---- MODULE Spec2Model ----
(***************************************************************************)
(* Model of the tc_market engine: the job orchestrator (jobs.py), the      *)
(* settlement and reward engine (market.py) and the persistence            *)
(* operations they use (storage.py).                                       *)
(*                                                                         *)
(* Every `with self.conn:` block of storage.py is one SQLite transaction:  *)
(* it commits as a whole or rolls back as a whole, so each such block is   *)
(* one atomic step.  Handlers that run several transactions (settle_cycle, *)
(* the job functions) are processes that may be interleaved, or may fail,  *)
(* between two transactions.                                               *)
(***************************************************************************)
EXTENDS Integers, Sequences, FiniteSets, TLC

\* ---------------------------------------------------------------- bounds
MaxUsers == 2
MaxCycles == 1
MaxDay == 1
MaxHour == 1
MaxInvocations == 3
NumCallers == 2
MaxCands == 2
MaxPaths == 2
MaxFingerprints == 2
MaxSettleCalls == 2
NumSettlers == 2
MaxDirectCredits == 1
MaxPicksCalls == 3
NumPickers == 3
MaxSyncs == 2

\* ------------------------------------------------------ program constants
STARTING_CHIPS == 100
DAILY_CHIPS == 10
MAX_PICKS_PER_CYCLE == 10

NULL == 0 - 1

UserIds == 1..MaxUsers
CycleIds == 1..MaxCycles
\* The cycles of the markets that have one cycle more.
AllCycleIds == 1..(MaxCycles + 1)
Days == 0..MaxDay
Hours == 0..MaxHour
Callers == 1..NumCallers
Settlers == 1..NumSettlers
Paths == 1..MaxPaths
Fingerprints == 1..MaxFingerprints

JobNames == {"daily_faucet", "model_run", "sync_assorted_links", "curation_rewards"}

VARIABLES
    source_posts,   \* source_posts table: the URLs of the posts marked processed
    archive_links,  \* archive_links table: rows [post_date, canonical_url, source_post_url]
    sync_hist,   \* history of the ingestion syncs: their number, the settlements they made, what the last one returned
    run_hist,   \* the last run_cycle: its cycle, what each config it reached was given, whether it raised
    model_predictions,   \* the model_predictions table
    ai_hist,   \* get_or_create_ai_user: the users returned per model id, the model ids a call raised for
    ai_calls,   \* get_or_create_ai_user: where each caller stands
    user_accounts,   \* users.email and users.account_type of the rows the model agents create
    norm_call,   \* the last _normalize_probabilities call: arguments and result
    job_returned,   \* per invocation id: the outcomes the job functions returned
    award_hist,   \* per cycle: calls that inserted reward rows; cycles where a later call returned none; the last direct market award call
    faucet_hist,  \* history: user -> the date create_user was given and the
                  \* dates apply_daily_faucet has been applied for since
    click_hist,   \* history: what the last record_click call returned, and the number of counted clicks per candidate
    users,          \* users table: id -> [current_chips, last_daily_credit_date]
    chip_ledger,    \* chip_ledger table, in insertion order
    cycles,         \* cycles table: id -> [status, closed_at]
    candidate_links, \* candidate_links table in creation order; the id is the index
    picks,          \* picks table: one batch [cycle_id, user_id, ids] per
                    \* (cycle, user), in picked_at order; rank = index in ids
    cycle_results,  \* cycle_results table: rows [cycle_id, candidate_id, is_winner]
    click_events,   \* click_events table: rows [candidate_id, fingerprint_hash]
    curation_rewards, \* curation_rewards table
    settle_calls,   \* one record per settler: the settle_cycle call in progress
    settle_hist,    \* history: settle_cycle calls started and failed, per cycle
    direct_credits, \* history: number of direct credit_user_chips calls
    job_runs,       \* job_runs table: rows [job_name, run_key] in insertion order
    now,            \* wall clock: [day, hour]
    job_calls,      \* one record per caller: the job invocation in progress
    claim_returns,  \* history: <<job, key>> -> numbers of True and of False
                    \* results claim_job_run has returned
    body_runs,      \* history: invocation identity -> numbers of bodies run
                    \* by un-forced and by forced invocations
    job_outcomes,   \* history: invocation identity -> numbers of un-forced
                    \* invocations skipped / past the claim, and of bodies
                    \* that returned / raised
    invocations,    \* history: number of job invocations started
    settle_returned,    \* history: what the last settle_cycle call that ran
                        \* undisturbed returned
    prob_returned,      \* history: what the last compute_market_probabilities
                        \* call returned
    candidate_returned, \* history: the candidate the last create_candidate
                        \* call returned
    picks_calls,        \* set_ranked_picks calls in progress, per caller
    picks_hist,         \* history: <<cycle, user>> -> the list of the last
                        \* set_ranked_picks call that succeeded, and the
                        \* number of calls that succeeded and that raised
    curation_returned   \* history: what the last compute_curation_reward_rows
                        \* call returned

vars == <<users, chip_ledger, cycles, candidate_links, picks, cycle_results,
          click_events, curation_rewards, settle_calls, settle_hist,
          direct_credits, job_runs, now, job_calls, claim_returns,
          body_runs, job_outcomes, invocations, settle_returned,
          prob_returned, candidate_returned, picks_calls, picks_hist,
          curation_returned,
          click_hist,
          faucet_hist,
          award_hist,
          job_returned,
          norm_call,
          user_accounts,
          ai_calls,
          ai_hist,
          model_predictions,
          run_hist,
          source_posts, archive_links, sync_hist>>

chipVars == <<users, chip_ledger>>
marketVars == <<candidate_links, picks, cycle_results, click_events,
                curation_rewards>>
settleVars == <<settle_calls, settle_hist>>
jobVars == <<job_runs, job_calls>>
jobHistVars == <<claim_returns, body_runs, job_outcomes, invocations, job_returned>>
ingestVars == <<source_posts, archive_links, sync_hist>>
returnVars == <<settle_returned, prob_returned, candidate_returned, picks_calls,
               picks_hist, curation_returned, click_hist,
             award_hist,
             norm_call,
             user_accounts,
             ai_calls,
             ai_hist,
             model_predictions,
             run_hist,
             ingestVars>>
callVars == <<returnVars, faucet_hist>>

\* The history record of `key` in `hist` (`none` when there is none yet).
Hist(hist, key, none) == IF key \in DOMAIN hist THEN hist[key] ELSE none

Bumped(hist, key, none, field) ==
    (key :> [Hist(hist, key, none) EXCEPT ![field] = @ + 1]) @@ hist

\* ------------------------------------------------------------ run keys
\* A run key is the text the job formats; the model keeps its parts
\* <<cycle, day, hour>>, NULL for a part the text does not contain.
FaucetKey(run_date) == <<NULL, run_date, NULL>>

ModelKeyNoHour(cycle_id, t) == <<cycle_id, t.day, NULL>>

ModelKey(cycle_id, t) == <<cycle_id, t.day, t.hour>>

SyncKey(t) == <<NULL, t.day, t.hour>>

CurationKey(cycle_id) == <<cycle_id, NULL, NULL>>

RunKeys == ((CycleIds \cup {NULL}) \X (Days \cup {NULL})) \X (Hours \cup {NULL})

AllKeys == {<<k[1][1], k[1][2], k[2]>> : k \in RunKeys}

JobKeys == JobNames \X AllKeys

\* The identity of an invocation: the job and the date, (cycle, hour), hour or
\* cycle it was invoked for, whatever key the job derives from them.
InvocationIds == JobKeys

FaucetId(run_date) == <<"daily_faucet", <<NULL, run_date, NULL>>>>

ModelId(cycle_id, t) == <<"model_run", <<cycle_id, t.day, t.hour>>>>

SyncId(t) == <<"sync_assorted_links", <<NULL, t.day, t.hour>>>>

CurationId(cycle_id) == <<"curation_rewards", <<cycle_id, NULL, NULL>>>>

\* -------------------------------------------------------------- storage
\* users are numbered in creation order (the order of the rows of the table).
NextUserId == Cardinality(DOMAIN users) + 1

NextCycleId == Cardinality(DOMAIN cycles) + 1

\* UPDATE users SET current_chips = current_chips + ? (skipped for a delta of 0)
UpdateChipsOverwrites(us, user_id, chips_delta) ==
    [us EXCEPT ![user_id].current_chips = chips_delta]

UpdateChips(us, user_id, chips_delta) ==
    IF chips_delta # 0
    THEN [us EXCEPT ![user_id].current_chips = @ + chips_delta]
    ELSE us

\* A ledger write that replaces the newest entry.
InsertLedgerOverwrites(led, user_id, cycle_id, event_type, chips_delta) ==
    LET entry == [user_id |-> user_id, cycle_id |-> cycle_id,
                  event_type |-> event_type, chips_delta |-> chips_delta]
    IN  IF led = <<>> THEN <<entry>> ELSE [led EXCEPT ![Len(led)] = entry]

\* INSERT INTO chip_ledger
InsertLedger(led, user_id, cycle_id, event_type, chips_delta) ==
    Append(led, [user_id |-> user_id, cycle_id |-> cycle_id,
                 event_type |-> event_type, chips_delta |-> chips_delta])

\* create_user: the users row and the signup_bonus ledger row, one transaction.
NewUserRow(created) ==
    [current_chips |-> STARTING_CHIPS, last_daily_credit_date |-> created]

SignupLedger(led, user_id) ==
    InsertLedger(led, user_id, NULL, "signup_bonus", STARTING_CHIPS)

\* A faucet that credits one day whatever the number of missed days.
RECURSIVE FaucetFromOneDay(_, _, _, _)
FaucetFromOneDay(us, led, as_of, user_id) ==
    IF user_id \notin DOMAIN us
    THEN [users |-> us, chip_ledger |-> led]
    ELSE IF as_of - us[user_id].last_daily_credit_date <= 0
         THEN FaucetFromOneDay(us, led, as_of, user_id + 1)
         ELSE FaucetFromOneDay(
                [us EXCEPT ![user_id].current_chips = @ + DAILY_CHIPS,
                           ![user_id].last_daily_credit_date = as_of],
                InsertLedger(led, user_id, NULL, "daily_faucet", DAILY_CHIPS),
                as_of, user_id + 1)

\* apply_daily_faucet: the loop over the rows of users, from row user_id on.
\* Returns the tables after the loop.
RECURSIVE FaucetFrom(_, _, _, _)
FaucetFrom(us, led, as_of, user_id) ==
    IF user_id \notin DOMAIN us
    THEN [users |-> us, chip_ledger |-> led]
    ELSE LET missed_days == as_of - us[user_id].last_daily_credit_date
             chips == missed_days * DAILY_CHIPS
         IN  IF missed_days <= 0
             THEN FaucetFrom(us, led, as_of, user_id + 1)
             ELSE FaucetFrom(
                    [us EXCEPT ![user_id].current_chips = @ + chips,
                               ![user_id].last_daily_credit_date = as_of],
                    InsertLedger(led, user_id, NULL, "daily_faucet", chips),
                    as_of, user_id + 1)

apply_daily_faucet(us, led, as_of) == FaucetFrom(us, led, as_of, 1)

\* The history after apply_daily_faucet(as_of) has run over the users.
FaucetSeen(hist, as_of) ==
    [u \in DOMAIN hist |-> [hist[u] EXCEPT !.applied = @ \cup {as_of}]]

\* The rows of job_runs for (job_name, run_key).
Markers(rows, job_name, run_key) ==
    {i \in 1..Len(rows) : rows[i].job_name = job_name /\ rows[i].run_key = run_key}

NoUniqueConstraint(rows, job_name, run_key) == FALSE

UniqueOnJobNameOnly(rows, job_name, run_key) ==
    \E i \in 1..Len(rows) : rows[i].job_name = job_name

\* The UNIQUE(job_name, run_key) constraint of job_runs rejects the insert.
UniqueViolation(rows, job_name, run_key) == Markers(rows, job_name, run_key) # {}

\* claim_job_run: one INSERT; any exception is reported as False.
claim_job_run(rows, job_name, run_key) ==
    IF UniqueViolation(rows, job_name, run_key)
    THEN [ok |-> FALSE, job_runs |-> rows]
    ELSE [ok |-> TRUE,
          job_runs |-> Append(rows, [job_name |-> job_name, run_key |-> run_key])]

\* claim_job_run when the INSERT raises something else than the UNIQUE
\* violation (the database is locked, the disk is full): `except Exception:
\* return False`, and the transaction is rolled back.
claim_job_run_storage_error(rows, job_name, run_key) == [ok |-> FALSE, job_runs |-> rows]

get_open_cycle ==
    LET open == {c \in DOMAIN cycles : cycles[c].status = "OPEN"}
    IN  IF open = {} THEN NULL
        ELSE CHOOSE c \in open : \A d \in open : d <= c

\* ----------------------------------------------------------------- time
\* _now_iso(): the clock as a number of hours.
NowStamp == now.day * 24 + now.hour

\* ----------------------------------------------------------------- URLs
\* A URL is <<path, key>>: key is "" or the name of the query parameter the
\* URL carries.
TrackingTags == {"", "utm_source"}

Urls == Paths \X TrackingTags

TRACKING_PARAMS == {"fbclid", "gclid", "igshid", "mc_cid", "mc_eid", "ref_src"}

\* The keys of the model that start with a TRACKING_PARAM_PREFIXES prefix.
UtmKeys == {"utm_source", "utm_campaign"}

QueryKeys == {"", "utm_source", "utm_campaign", "UTM_Source", "fbclid", "id"}

AllUrls == Paths \X QueryKeys

\* key.lower()
Lower(key) == IF key = "UTM_Source" THEN "utm_source" ELSE key

CanonicalKeepsQuery(url) == url

\* canonicalize_url: the query keeps the parameters that are not tracking
\* parameters.
canonicalize_url(url) ==
    <<url[1],
      IF Lower(url[2]) \in TRACKING_PARAMS \/ Lower(url[2]) \in UtmKeys
      THEN "" ELSE url[2]>>

\* ------------------------------------------------------ candidates, picks
CandidateIds == 1..Len(candidate_links)

\* list_candidates(cycle_id), as the set of ids
CandidatesOf(cycle_id) ==
    {i \in CandidateIds : candidate_links[i].cycle_id = cycle_id}

CandidateByCanonicalAnyCycle(cycle_id, canonical) ==
    {i \in CandidateIds : candidate_links[i].canonical_url = canonical}

\* SELECT ... WHERE cycle_id = ? AND canonical_url = ?, and the
\* candidate_by_canonical dict of settle_cycle
CandidateByCanonical(cycle_id, canonical) ==
    {i \in CandidatesOf(cycle_id) : candidate_links[i].canonical_url = canonical}

\* The rows of one batch of picks: rank = position in the submitted list.
BatchRows(batch) ==
    [r \in 1..Len(batch.ids) |->
        [user_id |-> batch.user_id, candidate_id |-> batch.ids[r], rank |-> r]]

\* list_picks(cycle_id): ORDER BY picked_at ASC, rank ASC
RECURSIVE ListPicksFrom(_, _, _)
ListPicksFrom(batches, cycle_id, i) ==
    IF i > Len(batches) THEN <<>>
    ELSE (IF batches[i].cycle_id = cycle_id THEN BatchRows(batches[i]) ELSE <<>>)
         \o ListPicksFrom(batches, cycle_id, i + 1)

list_picks(cycle_id) == ListPicksFrom(picks, cycle_id, 1)

\* DELETE FROM picks WHERE cycle_id = ? AND user_id = ?
RECURSIVE DeletePicks(_, _, _)
DeletePicks(batches, cycle_id, user_id) ==
    IF batches = <<>> THEN <<>>
    ELSE LET rest == DeletePicks(Tail(batches), cycle_id, user_id)
         IN  IF Head(batches).cycle_id = cycle_id /\ Head(batches).user_id = user_id
             THEN rest
             ELSE <<Head(batches)>> \o rest

IsInjective(seq) ==
    \A i, j \in 1..Len(seq) : seq[i] = seq[j] => i = j

SeqRange(seq) == {seq[i] : i \in 1..Len(seq)}

\* ------------------------------------------------------------ settlement
RankRewardFlat(rank) == 20

\* RANK_REWARDS.get(rank, 0)
RankReward(rank) == IF rank \in 1..10 THEN 22 - 2 * rank ELSE 0

AllPicksWin(pick, winner_set) == TRUE

\* market.py line 96: the pick's candidate is a winner
IsWinningPick(pick, winner_set) == pick.candidate_id \in winner_set

\* The loop of settle_cycle over the picks: user_rewards and user_hits, as a
\* sequence of [user_id, reward, hits] in the order the keys enter the dict.
RECURSIVE AccumulateRewards(_, _, _)
AccumulateRewards(pick_rows, winner_set, acc) ==
    IF pick_rows = <<>> THEN acc
    ELSE LET pick == Head(pick_rows)
             at == {i \in 1..Len(acc) : acc[i].user_id = pick.user_id}
             reward == RankReward(pick.rank)
         IN  IF ~IsWinningPick(pick, winner_set)
             THEN AccumulateRewards(Tail(pick_rows), winner_set, acc)
             ELSE IF at = {}
             THEN AccumulateRewards(Tail(pick_rows), winner_set,
                    Append(acc, [user_id |-> pick.user_id, reward |-> reward,
                                 hits |-> 1]))
             ELSE LET i == CHOOSE k \in at : TRUE
                  IN  AccumulateRewards(Tail(pick_rows), winner_set,
                        [acc EXCEPT ![i].reward = @ + reward, ![i].hits = @ + 1])

\* for user_id, reward in user_rewards.items(): if reward <= 0: continue
CreditQueue(rewards) == SelectSeq(rewards, LAMBDA e : e.reward > 0)

\* The winner ids settle_cycle derives from the winner URLs.
WinnerIds(cycle_id, winner_urls) ==
    {i \in CandidatesOf(cycle_id) :
        \E url \in winner_urls : candidate_links[i].canonical_url = canonicalize_url(url)}

\* save_cycle_results: the row the UPDATE leaves in cycles
SettledRowNoStamp(stamp) == [status |-> "SETTLED", closed_at |-> NULL]

SettledRow(stamp) == [status |-> "SETTLED", closed_at |-> stamp]

\* save_cycle_results: the rows inserted into cycle_results
ResultRowsWinnersOnly(cycle_id, winner_set) ==
    {[cycle_id |-> cycle_id, candidate_id |-> i, is_winner |-> 1] :
        i \in CandidatesOf(cycle_id) \cap winner_set}

ResultRows(cycle_id, winner_set) ==
    {[cycle_id |-> cycle_id, candidate_id |-> i,
      is_winner |-> IF i \in winner_set THEN 1 ELSE 0] : i \in CandidatesOf(cycle_id)}

ResultsOf(cycle_id) == {r \in cycle_results : r.cycle_id = cycle_id}

\* ------------------------------------------------------ curation rewards
CurationRanks == {1, 2, 3}

\* CURATION_RANK_REWARDS[rank]
CurationRankReward(rank) == CASE rank = 1 -> 40 [] rank = 2 -> 20 [] rank = 3 -> 10

\* A division that rounds every fraction up.
RoundDivUp(pool, n) == IF pool % n = 0 THEN pool \div n ELSE (pool \div n) + 1

\* Python's round(pool / n): to the nearest integer, a half to the even one.
RoundDiv(pool, n) ==
    LET q == pool \div n
        r == pool % n
    IN  IF 2 * r < n THEN q
        ELSE IF 2 * r > n THEN q + 1
        ELSE IF q % 2 = 0 THEN q ELSE q + 1

\* COUNT(e.id) of the click events on the candidates a user submitted to the cycle
UniqueClicks(cycle_id, user_id) ==
    Cardinality({e \in click_events :
        /\ e.candidate_id \in CandidatesOf(cycle_id)
        /\ candidate_links[e.candidate_id].submitted_by_user_id = user_id})

Submitters(cycle_id) ==
    {candidate_links[i].submitted_by_user_id : i \in CandidatesOf(cycle_id)}

\* ORDER BY unique_clicks DESC, user_id ASC over the submitters with clicks
RECURSIVE SortedClickRows(_, _)
SortedClickRows(cycle_id, left) ==
    IF left = {} THEN <<>>
    ELSE LET first == CHOOSE u \in left : \A v \in left :
                        \/ UniqueClicks(cycle_id, u) > UniqueClicks(cycle_id, v)
                        \/ /\ UniqueClicks(cycle_id, u) = UniqueClicks(cycle_id, v)
                           /\ u <= v
         IN  <<[user_id |-> first, unique_clicks |-> UniqueClicks(cycle_id, first)]>>
             \o SortedClickRows(cycle_id, left \ {first})

\* The length of the tie group that starts at idx.
RECURSIVE TieLen(_, _, _)
TieLen(rows, idx, click_count) ==
    IF idx <= Len(rows) /\ rows[idx].unique_clicks = click_count
    THEN 1 + TieLen(rows, idx + 1, click_count)
    ELSE 0

RECURSIVE SumRewards(_, _)
SumRewards(from, to) ==
    IF from > to THEN 0
    ELSE (IF from \in CurationRanks THEN CurationRankReward(from) ELSE 0)
         + SumRewards(from + 1, to)

\* A walk that gives every submitter a position of its own.
RECURSIVE CurationWalkOwnSlots(_, _, _, _)
CurationWalkOwnSlots(rows, idx, next_rank, reward_rows) ==
    IF ~(idx <= Len(rows) /\ next_rank <= 3) THEN reward_rows
    ELSE CurationWalkOwnSlots(rows, idx + 1, next_rank + 1,
            reward_rows \o <<[user_id |-> rows[idx].user_id,
                              rank |-> next_rank,
                              unique_clicks |-> rows[idx].unique_clicks,
                              reward_chips |-> CurationRankReward(next_rank)]>>)

\* The while loop of compute_curation_reward_rows.
RECURSIVE CurationWalk(_, _, _, _)
CurationWalk(rows, idx, next_rank, reward_rows) ==
    IF ~(idx <= Len(rows) /\ next_rank <= 3) THEN reward_rows
    ELSE LET click_count == rows[idx].unique_clicks
             n == TieLen(rows, idx, click_count)
             start_rank == next_rank
             end_rank == IF start_rank + n - 1 < 3 THEN start_rank + n - 1 ELSE 3
             eligible == {r \in start_rank..end_rank : r \in CurationRanks}
             split_reward == RoundDiv(SumRewards(start_rank, end_rank), n)
             group == [i \in 1..n |->
                         [user_id |-> rows[idx + i - 1].user_id,
                          rank |-> start_rank,
                          unique_clicks |-> click_count,
                          reward_chips |-> split_reward]]
         IN  IF eligible = {} THEN reward_rows
             ELSE CurationWalk(rows, idx + n, next_rank + n, reward_rows \o group)

compute_curation_reward_rows(cycle_id) ==
    CurationWalk(
        SortedClickRows(cycle_id,
            {u \in Submitters(cycle_id) : UniqueClicks(cycle_id, u) > 0}),
        1, 1, <<>>)

NoCurationReturn == [cycle_id |-> NULL, rows |-> <<>>]

\* Storage.compute_curation_reward_rows: one SELECT and the return value
ComputeCurationRewardRows(cycle_id) ==
    /\ curation_returned' = [cycle_id |-> cycle_id,
                             rows |-> compute_curation_reward_rows(cycle_id)]
    /\ UNCHANGED <<chipVars, cycles, marketVars, settleVars, direct_credits,
                   jobVars, now, jobHistVars, settle_returned, prob_returned,
                   candidate_returned, picks_calls, picks_hist, click_hist,
                   award_hist, faucet_hist, norm_call, user_accounts, ai_calls,
                   ai_hist, model_predictions, run_hist, ingestVars>>

has_curation_rewards_never(cycle_id) == FALSE

has_curation_rewards(cycle_id) ==
    \E r \in curation_rewards : r.cycle_id = cycle_id

\* Storage.apply_curation_rewards: every row is inserted and credited in a
\* transaction of its own (the `with self.conn` of credit_user_chips commits
\* the enclosing one), so a failure leaves the first `done` rows committed.
\* Returns the tables after `done` rows.
RECURSIVE CurationApplied(_, _, _, _, _, _)
CurationApplied(cycle_id, reward_rows, done, us, led, cur) ==
    IF done = 0 THEN [users |-> us, chip_ledger |-> led, curation_rewards |-> cur]
    ELSE LET row == Head(reward_rows)
         IN  CurationApplied(cycle_id, Tail(reward_rows), done - 1,
                UpdateChips(us, row.user_id, row.reward_chips),
                InsertLedger(led, row.user_id, cycle_id, "curation_reward",
                             row.reward_chips),
                cur \cup {[cycle_id |-> cycle_id, user_id |-> row.user_id,
                           rank |-> row.rank, unique_clicks |-> row.unique_clicks,
                           reward_chips |-> row.reward_chips]})

\* The rows apply_curation_rewards sets out to award.
CurationRowsToApply(cycle_id) ==
    IF has_curation_rewards(cycle_id) THEN <<>>
    ELSE compute_curation_reward_rows(cycle_id)

\* A market that awards whenever the cycle is SETTLED.
MarketAwardsNoWindow(cycle_id, min_age_hours, force) ==
    cycle_id \in DOMAIN cycles /\ cycles[cycle_id].status = "SETTLED"

\* MarketService.apply_curation_rewards reaches Storage.apply_curation_rewards
MarketAwards(cycle_id, min_age_hours, force) ==
    /\ cycle_id \in DOMAIN cycles
    /\ cycles[cycle_id].status = "SETTLED"
    /\ ~(/\ ~force
         /\ cycles[cycle_id].closed_at # NULL
         /\ NowStamp - cycles[cycle_id].closed_at < min_age_hours)

\* ====================================================== market operations
SeqsUpTo(S, n) == UNION {[1..k -> S] : k \in 0..n}

Today(date_or_null) == IF date_or_null = NULL THEN now.day ELSE date_or_null

\* Storage.create_user
CreateUser(created_date) ==
    /\ NextUserId <= MaxUsers
    /\ users' = users @@ (NextUserId :> NewUserRow(Today(created_date)))
    /\ chip_ledger' = SignupLedger(chip_ledger, NextUserId)
    /\ faucet_hist' = faucet_hist @@
            (NextUserId :> [created |-> Today(created_date), applied |-> {}])
    /\ UNCHANGED <<cycles, marketVars, settleVars, returnVars, direct_credits, jobVars,
                   now, jobHistVars>>

\* Storage.credit_user_chips, called directly
CreditUserChips(user_id, chips_delta) ==
    /\ direct_credits < MaxDirectCredits
    /\ user_id \in DOMAIN users
    /\ direct_credits' = direct_credits + 1
    /\ users' = UpdateChips(users, user_id, chips_delta)
    /\ chip_ledger' = InsertLedger(chip_ledger, user_id, NULL, "adjustment", chips_delta)
    /\ UNCHANGED <<cycles, marketVars, settleVars, callVars, jobVars, now, jobHistVars>>

\* Storage.apply_daily_faucet, called directly
ApplyDailyFaucet(as_of_date) ==
    LET after == apply_daily_faucet(users, chip_ledger, Today(as_of_date))
    IN  /\ users' = after.users
        /\ chip_ledger' = after.chip_ledger
        /\ faucet_hist' = FaucetSeen(faucet_hist, Today(as_of_date))
        /\ UNCHANGED <<cycles, marketVars, settleVars, returnVars, direct_credits,
                       jobVars, now, jobHistVars>>

\* Storage.create_cycle
CreateCycle ==
    /\ NextCycleId <= MaxCycles
    /\ cycles' = cycles @@ (NextCycleId :> [status |-> "OPEN", closed_at |-> NULL])
    /\ UNCHANGED <<chipVars, marketVars, settleVars, callVars, direct_credits, jobVars, now,
                   jobHistVars>>

\* Storage.create_candidate: the INSERT, and when it fails the SELECT of the
\* row that has the canonical URL in the cycle, which is returned as it is.
\* (With no such row the exception is raised again: no step.)
NoCandidateReturn ==
    [id |-> NULL, created |-> FALSE, cycle_id |-> NULL, url |-> <<NULL, "">>]

CreateCandidate(cycle_id, user_id, url) ==
    LET canonical == canonicalize_url(url)
        existing == CandidateByCanonical(cycle_id, canonical)
    IN  IF existing = {}
        THEN /\ cycle_id \in DOMAIN cycles
             /\ user_id \in DOMAIN users
             /\ Len(candidate_links) < MaxCands
             /\ candidate_links' = Append(candidate_links,
                    [cycle_id |-> cycle_id, submitted_by_user_id |-> user_id,
                     canonical_url |-> canonical])
             /\ candidate_returned' = [id |-> Len(candidate_links) + 1,
                                       created |-> TRUE,
                                       cycle_id |-> cycle_id, url |-> url]
             /\ UNCHANGED <<chipVars, cycles, picks, cycle_results, click_events,
                            curation_rewards, settleVars, direct_credits, jobVars,
                            now, jobHistVars, settle_returned, prob_returned,
                            picks_calls, picks_hist,
                   curation_returned, click_hist, faucet_hist, award_hist, norm_call, user_accounts, ai_calls, ai_hist, model_predictions, run_hist, ingestVars>>
        ELSE /\ candidate_returned' = [id |-> CHOOSE i \in existing : TRUE,
                                       created |-> FALSE,
                                       cycle_id |-> cycle_id, url |-> url]
             /\ UNCHANGED <<chipVars, cycles, marketVars, settleVars,
                            direct_credits, jobVars, now, jobHistVars,
                            settle_returned, prob_returned, picks_calls,
                            picks_hist,
                   curation_returned, click_hist, faucet_hist, award_hist, norm_call, user_accounts, ai_calls, ai_hist, model_predictions, run_hist, ingestVars>>

\* MarketService.set_ranked_picks / Storage.set_ranked_picks: the checks that
\* raise ValueError (too many ids, a duplicate id, an id that is not a
\* candidate of the cycle).
PicksValidNoLimit(cycle_id, ids) ==
    /\ IsInjective(ids)
    /\ SeqRange(ids) \subseteq CandidatesOf(cycle_id)

PicksValid(cycle_id, ids) ==
    /\ Len(ids) <= MAX_PICKS_PER_CYCLE
    /\ IsInjective(ids)
    /\ SeqRange(ids) \subseteq CandidatesOf(cycle_id)

\* The call gets to its commit: the checks pass and the INSERTs satisfy the
\* foreign key on users.
PicksAccepted(cycle_id, user_id, ids) ==
    /\ PicksValid(cycle_id, ids)
    /\ ids # <<>> => user_id \in DOMAIN users

\* The picks table after the transaction of set_ranked_picks has committed:
\* the DELETE of the user's rows and one INSERT per id.
PicksWritten(batches, cycle_id, user_id, ids) ==
    DeletePicks(batches, cycle_id, user_id)
    \o (IF ids = <<>> THEN <<>>
        ELSE <<[cycle_id |-> cycle_id, user_id |-> user_id, ids |-> ids]>>)

PicksAfterFailureNoRollback(batches, cycle_id, user_id, ids, done) ==
    PicksWritten(batches, cycle_id, user_id, SubSeq(ids, 1, done))

\* The picks table after the transaction has failed with `done` rows
\* inserted: `with self.conn` rolls the DELETE and the INSERTs back.
PicksAfterFailure(batches, cycle_id, user_id, ids, done) == batches

PicksDeletedOnRejection(batches, cycle_id, user_id) ==
    DeletePicks(batches, cycle_id, user_id)

\* The picks table after a call that a check has rejected: the checks come
\* before the transaction, nothing is written.
PicksAfterRejection(batches, cycle_id, user_id) == batches

IdlePicksCall == [pc |-> "idle", cycle_id |-> NULL, user_id |-> NULL, ids |-> <<>>]

NoPicksHist ==
    [last |-> <<>>, succeeded |-> 0, raised |-> 0, failed |-> 0,
     rejected |-> [cycle_id |-> NULL, ids |-> <<>>]]

PicksCallsMade ==
    picks_hist.succeeded + picks_hist.raised + picks_hist.failed
    + Cardinality({p \in Callers : picks_calls[p].pc # "idle"})

\* The list of the last successful call for (cycle, user); none: no picks.
LastPicks(cycle_id, user_id) ==
    IF <<cycle_id, user_id>> \in DOMAIN picks_hist.last
    THEN picks_hist.last[<<cycle_id, user_id>>]
    ELSE <<>>

Succeeded(hist, cycle_id, user_id, ids) ==
    [hist EXCEPT !.last = (<<cycle_id, user_id>> :> ids) @@ @,
                 !.succeeded = @ + 1]

\* set_ranked_picks from its call to its return, nothing failing
SetRankedPicks(cycle_id, user_id, ids) ==
    /\ PicksCallsMade < MaxPicksCalls
    /\ PicksAccepted(cycle_id, user_id, ids)
    /\ picks' = PicksWritten(picks, cycle_id, user_id, ids)
    /\ picks_hist' = Succeeded(picks_hist, cycle_id, user_id, ids)
    /\ UNCHANGED <<chipVars, cycles, candidate_links, cycle_results, click_events,
                   curation_rewards, settleVars, direct_credits, jobVars, now,
                   jobHistVars, settle_returned, prob_returned,
                   candidate_returned, picks_calls,
                   curation_returned, click_hist, faucet_hist, award_hist, norm_call, user_accounts, ai_calls, ai_hist, model_predictions, run_hist, ingestVars>>

\* set_ranked_picks raising ValueError from one of its checks
SetRankedPicksRaises(cycle_id, user_id, ids) ==
    /\ PicksCallsMade < MaxPicksCalls
    /\ ~PicksValid(cycle_id, ids)
    /\ picks' = PicksAfterRejection(picks, cycle_id, user_id)
    /\ picks_hist' = [picks_hist EXCEPT !.raised = @ + 1,
                                        !.rejected = [cycle_id |-> cycle_id,
                                                      ids |-> ids]]
    /\ UNCHANGED <<chipVars, cycles, candidate_links, cycle_results, click_events,
                   curation_rewards, settleVars, direct_credits, jobVars, now,
                   jobHistVars, settle_returned, prob_returned,
                   candidate_returned, picks_calls,
                   curation_returned, click_hist, faucet_hist, award_hist, norm_call, user_accounts, ai_calls, ai_hist, model_predictions, run_hist, ingestVars>>

\* set_ranked_picks up to the start of its transaction, for a caller that
\* runs beside others
PicksBegin(p, cycle_id, user_id, ids) ==
    /\ picks_calls[p].pc = "idle"
    /\ PicksCallsMade < MaxPicksCalls
    /\ PicksAccepted(cycle_id, user_id, ids)
    /\ picks_calls' = [picks_calls EXCEPT ![p] =
            [pc |-> "write", cycle_id |-> cycle_id, user_id |-> user_id,
             ids |-> ids]]
    /\ UNCHANGED <<chipVars, cycles, marketVars, settleVars, direct_credits,
                   jobVars, now, jobHistVars, settle_returned, prob_returned,
                   candidate_returned, picks_hist,
                   curation_returned, click_hist, faucet_hist, award_hist, norm_call, user_accounts, ai_calls, ai_hist, model_predictions, run_hist, ingestVars>>

\* The transaction of set_ranked_picks commits.
PicksCommit(p) ==
    LET call == picks_calls[p]
    IN  /\ call.pc = "write"
        /\ picks' = PicksWritten(picks, call.cycle_id, call.user_id, call.ids)
        /\ picks_hist' = Succeeded(picks_hist, call.cycle_id, call.user_id, call.ids)
        /\ picks_calls' = [picks_calls EXCEPT ![p] = IdlePicksCall]
        /\ UNCHANGED <<chipVars, cycles, candidate_links, cycle_results,
                       click_events, curation_rewards, settleVars, direct_credits,
                       jobVars, now, jobHistVars, settle_returned, prob_returned,
                       candidate_returned,
                   curation_returned, click_hist, faucet_hist, award_hist, norm_call, user_accounts, ai_calls, ai_hist, model_predictions, run_hist, ingestVars>>

\* The transaction of set_ranked_picks fails after `done` of its INSERTs.
PicksFail(p, done) ==
    LET call == picks_calls[p]
    IN  /\ call.pc = "write"
        /\ done \in 0..Len(call.ids)
        /\ picks' = PicksAfterFailure(picks, call.cycle_id, call.user_id,
                                      call.ids, done)
        /\ picks_hist' = [picks_hist EXCEPT !.failed = @ + 1]
        /\ picks_calls' = [picks_calls EXCEPT ![p] = IdlePicksCall]
        /\ UNCHANGED <<chipVars, cycles, candidate_links, cycle_results,
                       click_events, curation_rewards, settleVars, direct_credits,
                       jobVars, now, jobHistVars, settle_returned, prob_returned,
                       candidate_returned,
                   curation_returned, click_hist, faucet_hist, award_hist, norm_call, user_accounts, ai_calls, ai_hist, model_predictions, run_hist, ingestVars>>

NoClickHist ==
    [returned |-> [candidate_id |-> NULL, fingerprint_hash |-> NULL,
                   outcome |-> "none"],
     counted |-> <<>>]

\* A record_click that counts every click.
ClickAlwaysUnique(candidate_id, fingerprint, clicked_by_user_id) ==
    IF candidate_id \notin CandidateIds THEN "not_found" ELSE "unique"

\* Storage.record_click, what the call comes to: KeyError for an unknown
\* candidate, self_click, and the INSERT that fails (duplicate) on the
\* UNIQUE(candidate_id, fingerprint_hash) or on the foreign key of the clicker.
ClickOutcome(candidate_id, fingerprint, clicked_by_user_id) ==
    IF candidate_id \notin CandidateIds THEN "not_found"
    ELSE IF /\ clicked_by_user_id # NULL
            /\ clicked_by_user_id = candidate_links[candidate_id].submitted_by_user_id
    THEN "self_click"
    ELSE IF \/ [candidate_id |-> candidate_id, fingerprint_hash |-> fingerprint]
                    \in click_events
            \/ clicked_by_user_id # NULL /\ clicked_by_user_id \notin DOMAIN users
    THEN "duplicate"
    ELSE "unique"

\* Storage.record_click; `fingerprint` is the sha256 of the fingerprint source,
\* which keeps distinct sources apart.
RecordClick(candidate_id, fingerprint, clicked_by_user_id) ==
    LET outcome == ClickOutcome(candidate_id, fingerprint, clicked_by_user_id)
    IN  /\ click_events' =
              IF outcome = "unique"
              THEN click_events \cup
                      {[candidate_id |-> candidate_id, fingerprint_hash |-> fingerprint]}
              ELSE click_events
        /\ click_hist' =
              [returned |-> [candidate_id |-> candidate_id,
                             fingerprint_hash |-> fingerprint,
                             outcome |-> outcome],
               counted |-> IF outcome = "unique"
                           THEN (candidate_id :>
                                    Hist(click_hist.counted, candidate_id, 0) + 1)
                                @@ click_hist.counted
                           ELSE click_hist.counted]
        /\ UNCHANGED <<chipVars, cycles, candidate_links, picks, cycle_results,
                       curation_rewards, settleVars, direct_credits, jobVars, now,
                       jobHistVars, settle_returned, prob_returned,
                       candidate_returned, picks_calls, picks_hist,
                       curation_returned, faucet_hist, award_hist, norm_call, user_accounts, ai_calls, ai_hist, model_predictions, run_hist, ingestVars>>

\* History of the reward calls: a call that inserts at least one row counts
\* as awarding; a call that returns no rows after an awarding one is noted.
NoMarketCall == [cycle_id |-> NULL, min_age_hours |-> 0, force |-> FALSE, reason |-> "none"]

NoAwardHist == [awarding |-> <<>>, empty_after |-> {}, market |-> NoMarketCall]

\* The `reason` of the dict MarketService.apply_curation_rewards returns
\* ("raised": the call raised and returned nothing).
AwardReason(cycle_id, min_age_hours, force, reward_rows, done) ==
    IF done < Len(reward_rows) THEN "raised"
    ELSE IF cycles[cycle_id].status # "SETTLED" THEN "cycle_not_settled"
    ELSE IF ~MarketAwards(cycle_id, min_age_hours, force) THEN "wait_window"
    ELSE IF reward_rows = <<>> THEN "none_or_already_awarded"
    ELSE "ok"

AwardSeen(hist, cycle_id, reward_rows, done) ==
    IF done > 0
    THEN [hist EXCEPT !.awarding =
             (cycle_id :> (Hist(hist.awarding, cycle_id, 0) + 1)) @@ hist.awarding]
    ELSE IF reward_rows = <<>> /\ Hist(hist.awarding, cycle_id, 0) > 0
         THEN [hist EXCEPT !.empty_after = @ \cup {cycle_id}]
         ELSE hist

\* Storage.apply_curation_rewards called directly; `done` rows are committed
\* before a failure (done = all of them: no failure).
ApplyCurationRewards(cycle_id, done) ==
    LET reward_rows == CurationRowsToApply(cycle_id)
        after == CurationApplied(cycle_id, reward_rows, done, users, chip_ledger,
                                 curation_rewards)
    IN  /\ done \in 0..Len(reward_rows)
        /\ users' = after.users
        /\ chip_ledger' = after.chip_ledger
        /\ curation_rewards' = after.curation_rewards
        /\ award_hist' = AwardSeen(award_hist, cycle_id, reward_rows, done)
        /\ UNCHANGED <<cycles, candidate_links, picks, cycle_results, click_events,
                       settleVars, direct_credits, jobVars, now, jobHistVars,
                       settle_returned, prob_returned, candidate_returned, picks_calls,
                       picks_hist, curation_returned, click_hist, faucet_hist, norm_call, user_accounts, ai_calls, ai_hist, model_predictions, run_hist, ingestVars>>

\* MarketService.apply_curation_rewards called directly: an unknown cycle
\* raises, an unsettled or too recent one returns no rows, otherwise
\* Storage.apply_curation_rewards runs (`done` rows before a failure).
MarketApplyCurationRewards(cycle_id, min_age_hours, force, done) ==
    LET reward_rows == IF MarketAwards(cycle_id, min_age_hours, force)
                       THEN CurationRowsToApply(cycle_id)
                       ELSE <<>>
        after == CurationApplied(cycle_id, reward_rows, done, users, chip_ledger,
                                 curation_rewards)
    IN  /\ cycle_id \in DOMAIN cycles
        /\ done \in 0..Len(reward_rows)
        /\ users' = after.users
        /\ chip_ledger' = after.chip_ledger
        /\ curation_rewards' = after.curation_rewards
        /\ award_hist' =
              [AwardSeen(award_hist, cycle_id, reward_rows, done) EXCEPT !.market =
                  [cycle_id |-> cycle_id, min_age_hours |-> min_age_hours,
                   force |-> force,
                   reason |-> AwardReason(cycle_id, min_age_hours, force,
                                          reward_rows, done)]]
        /\ UNCHANGED <<cycles, candidate_links, picks, cycle_results, click_events,
                       settleVars, direct_credits, jobVars, now, jobHistVars,
                       settle_returned, prob_returned, candidate_returned, picks_calls,
                       picks_hist, curation_returned, click_hist, faucet_hist, norm_call, user_accounts, ai_calls, ai_hist, model_predictions, run_hist, ingestVars>>

\* ------------------------------------------------------------ settle_cycle
IdleSettle == [pc |-> "idle", cycle_id |-> NULL, winner_set |-> {}, queue |-> <<>>]

SettleCallsStarted ==
    LET RECURSIVE Sum(_)
        Sum(S) == IF S = {} THEN 0
                  ELSE LET c == CHOOSE x \in S : TRUE
                       IN  settle_hist[c].started + Sum(S \ {c})
    IN  Sum(DOMAIN settle_hist)

\* settle_cycle up to the commit of save_cycle_results: the winner ids, the
\* result rows and the status flip.
SettleSave(p, cycle_id, winner_urls) ==
    LET winner_set == WinnerIds(cycle_id, winner_urls)
    IN  /\ settle_calls[p].pc = "idle"
        /\ SettleCallsStarted < MaxSettleCalls
        /\ cycle_results' = (cycle_results \ ResultsOf(cycle_id))
                            \cup ResultRows(cycle_id, winner_set)
        /\ cycles' = IF cycle_id \in DOMAIN cycles
                     THEN [cycles EXCEPT ![cycle_id] = SettledRow(NowStamp)]
                     ELSE cycles
        /\ settle_calls' = [settle_calls EXCEPT ![p] =
                [pc |-> "picks", cycle_id |-> cycle_id, winner_set |-> winner_set,
                 queue |-> <<>>]]
        /\ settle_hist' = [settle_hist EXCEPT ![cycle_id].started = @ + 1]
        /\ UNCHANGED <<callVars, chipVars, candidate_links, picks, click_events,
                       curation_rewards, direct_credits, jobVars, now, jobHistVars>>

\* save_cycle_results raises inside its transaction: everything is rolled back.
SettleSaveFails(cycle_id) ==
    /\ SettleCallsStarted < MaxSettleCalls
    /\ settle_hist' = [settle_hist EXCEPT ![cycle_id].started = @ + 1,
                                          ![cycle_id].failed = @ + 1]
    /\ UNCHANGED <<callVars, chipVars, cycles, marketVars, settle_calls, direct_credits,
                   jobVars, now, jobHistVars>>

\* list_picks and the loop that fills user_rewards and user_hits.
SettleReadPicks(p) ==
    LET call == settle_calls[p]
        rewards == AccumulateRewards(list_picks(call.cycle_id), call.winner_set, <<>>)
        queue == CreditQueue(rewards)
    IN  /\ call.pc = "picks"
        /\ IF queue = <<>>
           THEN settle_calls' = [settle_calls EXCEPT ![p] = IdleSettle]
           ELSE settle_calls' = [settle_calls EXCEPT ![p].pc = "credit",
                                                     ![p].queue = queue]
        /\ UNCHANGED settle_hist
        /\ UNCHANGED <<callVars, chipVars, cycles, marketVars, direct_credits, jobVars, now,
                       jobHistVars>>

\* One credit_user_chips call of the loop over user_rewards; after the last one
\* settle_cycle returns.
SettleCredit(p) ==
    LET call == settle_calls[p]
        entry == Head(call.queue)
    IN  /\ call.pc = "credit"
        /\ users' = UpdateChips(users, entry.user_id, entry.reward)
        /\ chip_ledger' = InsertLedger(chip_ledger, entry.user_id, call.cycle_id,
                                       "prediction_reward", entry.reward)
        /\ IF Len(call.queue) = 1
           THEN settle_calls' = [settle_calls EXCEPT ![p] = IdleSettle]
           ELSE settle_calls' = [settle_calls EXCEPT ![p].queue = Tail(@)]
        /\ UNCHANGED settle_hist
        /\ UNCHANGED <<callVars, cycles, marketVars, direct_credits, jobVars, now, jobHistVars>>

\* settle_cycle raises (or its process dies) after save_cycle_results has
\* committed: the transaction in progress is rolled back, the committed ones stay.
SettleFails(p) ==
    /\ settle_calls[p].pc \in {"picks", "credit"}
    /\ settle_calls' = [settle_calls EXCEPT ![p] = IdleSettle]
    /\ settle_hist' = [settle_hist EXCEPT ![settle_calls[p].cycle_id].failed = @ + 1]
    /\ UNCHANGED <<callVars, chipVars, cycles, marketVars, direct_credits, jobVars, now,
                   jobHistVars>>

\* ------------------------------------------- settle_cycle, undisturbed
\* The user of every pick row, repeated for each of the user's picks.
ParticipantIdsEveryPick(pick_rows, seen) == [i \in 1..Len(pick_rows) |-> pick_rows[i].user_id]

\* participant_ids: the users of the picks, in the order they first appear.
RECURSIVE ParticipantIds(_, _)
ParticipantIds(pick_rows, seen) ==
    IF pick_rows = <<>> THEN <<>>
    ELSE IF Head(pick_rows).user_id \in seen
         THEN ParticipantIds(Tail(pick_rows), seen)
         ELSE <<Head(pick_rows).user_id>>
              \o ParticipantIds(Tail(pick_rows), seen \cup {Head(pick_rows).user_id})

\* user_hits.get(user_id, 0) and user_rewards.get(user_id, 0)
RankingEntry(user_id, rewards) ==
    LET at == {i \in 1..Len(rewards) : rewards[i].user_id = user_id}
    IN  IF at = {}
        THEN [user_id |-> user_id, correct_count |-> 0, reward_chips |-> 0]
        ELSE LET i == CHOOSE k \in at : TRUE
             IN  [user_id |-> user_id, correct_count |-> rewards[i].hits,
                  reward_chips |-> rewards[i].reward]

\* The sort key (reward_chips, correct_count) of a is greater than that of b.
ScoreKeyGreater(a, b) ==
    \/ a.reward_chips > b.reward_chips
    \/ a.reward_chips = b.reward_chips /\ a.correct_count > b.correct_count

\* list.sort(key=..., reverse=True): descending, equal keys keep their order.
RECURSIVE InsertByScore(_, _)
InsertByScore(sorted, entry) ==
    IF sorted = <<>> THEN <<entry>>
    ELSE IF ScoreKeyGreater(entry, Head(sorted))
         THEN <<entry>> \o sorted
         ELSE <<Head(sorted)>> \o InsertByScore(Tail(sorted), entry)

RECURSIVE SortByScore(_)
SortByScore(entries) ==
    IF entries = <<>> THEN <<>>
    ELSE InsertByScore(SortByScore(SubSeq(entries, 1, Len(entries) - 1)),
                       entries[Len(entries)])

RECURSIVE EntriesWithDenseRanks(_, _, _)
EntriesWithDenseRanks(sorted, idx, current_rank) ==
    IF idx > Len(sorted) THEN <<>>
    ELSE LET row == sorted[idx]
             same == /\ idx > 1
                     /\ row.reward_chips = sorted[idx - 1].reward_chips
                     /\ row.correct_count = sorted[idx - 1].correct_count
             rank == IF same THEN current_rank ELSE current_rank + 1
         IN  <<[user_id |-> row.user_id, correct_count |-> row.correct_count,
                reward_chips |-> row.reward_chips, rank |-> rank]>>
             \o EntriesWithDenseRanks(sorted, idx + 1, rank)

\* The loop that gives every entry its rank: current_rank is the index of the
\* first entry with the score key.
RECURSIVE EntriesWithRanks(_, _, _)
EntriesWithRanks(sorted, idx, current_rank) ==
    IF idx > Len(sorted) THEN <<>>
    ELSE LET row == sorted[idx]
             same == /\ idx > 1
                     /\ row.reward_chips = sorted[idx - 1].reward_chips
                     /\ row.correct_count = sorted[idx - 1].correct_count
             rank == IF same THEN current_rank ELSE idx
         IN  <<[user_id |-> row.user_id, correct_count |-> row.correct_count,
                reward_chips |-> row.reward_chips, rank |-> rank]>>
             \o EntriesWithRanks(sorted, idx + 1, rank)

\* The "ranking" of the value settle_cycle returns.
Ranking(pick_rows, winner_set) ==
    LET rewards == AccumulateRewards(pick_rows, winner_set, <<>>)
        participant_ids == ParticipantIds(pick_rows, {})
        ranking_entries == [i \in 1..Len(participant_ids) |->
                                RankingEntry(participant_ids[i], rewards)]
    IN  EntriesWithRanks(SortByScore(ranking_entries), 1, 0)

\* The loop of credit_user_chips calls, run to its end.
RECURSIVE CreditAll(_, _, _, _)
CreditAll(queue, cycle_id, us, led) ==
    IF queue = <<>> THEN [users |-> us, chip_ledger |-> led]
    ELSE CreditAll(Tail(queue), cycle_id,
            UpdateChips(us, Head(queue).user_id, Head(queue).reward),
            InsertLedger(led, Head(queue).user_id, cycle_id, "prediction_reward",
                         Head(queue).reward))

\* winner_candidate_ids: the loop over the set of canonical winner URLs, each
\* looked up in candidate_by_canonical.
RECURSIVE WinnerIdList(_, _)
WinnerIdList(cycle_id, canonicals) ==
    IF canonicals = {} THEN <<>>
    ELSE LET canonical == CHOOSE c \in canonicals : TRUE
             found == CandidateByCanonical(cycle_id, canonical)
         IN  (IF found = {} THEN <<>> ELSE <<CHOOSE i \in found : TRUE>>)
             \o WinnerIdList(cycle_id, canonicals \ {canonical})

NoSettleReturn ==
    [cycle_id |-> NULL, winner_urls |-> {}, winner_candidate_ids |-> <<>>,
     ranking |-> <<>>]

\* MarketService.settle_cycle from its call to its return, while no other
\* settle_cycle call is in progress and nothing fails.
SettleCycle(cycle_id, winner_urls) ==
    LET winner_set == WinnerIds(cycle_id, winner_urls)
        pick_rows == list_picks(cycle_id)
        queue == CreditQueue(AccumulateRewards(pick_rows, winner_set, <<>>))
        after == CreditAll(queue, cycle_id, users, chip_ledger)
    IN  /\ \A p \in Settlers : settle_calls[p].pc = "idle"
        /\ SettleCallsStarted < MaxSettleCalls
        /\ cycle_results' = (cycle_results \ ResultsOf(cycle_id))
                            \cup ResultRows(cycle_id, winner_set)
        /\ cycles' = IF cycle_id \in DOMAIN cycles
                     THEN [cycles EXCEPT ![cycle_id] = SettledRow(NowStamp)]
                     ELSE cycles
        /\ users' = after.users
        /\ chip_ledger' = after.chip_ledger
        /\ settle_hist' = [settle_hist EXCEPT ![cycle_id].started = @ + 1]
        /\ settle_returned' =
              [cycle_id |-> cycle_id,
               winner_urls |-> winner_urls,
               winner_candidate_ids |->
                  WinnerIdList(cycle_id, {canonicalize_url(url) : url \in winner_urls}),
               ranking |-> Ranking(pick_rows, winner_set)]
        /\ UNCHANGED <<candidate_links, picks, click_events, curation_rewards,
                       settle_calls, direct_credits, jobVars, now, jobHistVars,
                       prob_returned, candidate_returned, picks_calls, picks_hist,
                   curation_returned, click_hist, faucet_hist, award_hist, norm_call, user_accounts, ai_calls, ai_hist, model_predictions, run_hist, ingestVars>>

\* ------------------------------------------------------- ingestion sync
\* posts.sort(key=lambda post: post.published_at): ascending, equal dates
\* keep their order.
RECURSIVE InsertByPublished(_, _)
InsertByPublished(sorted, post) ==
    IF sorted = <<>> THEN <<post>>
    ELSE IF post.published_at < Head(sorted).published_at
         THEN <<post>> \o sorted
         ELSE <<Head(sorted)>> \o InsertByPublished(Tail(sorted), post)

RECURSIVE SortByPublished(_)
SortByPublished(feed) ==
    IF feed = <<>> THEN <<>>
    ELSE InsertByPublished(SortByPublished(SubSeq(feed, 1, Len(feed) - 1)),
                           feed[Len(feed)])

\* Storage.source_post_seen
source_post_seen(seen, source_post_url) == source_post_url \in seen

\* Storage.upsert_archive_link for every link of the post: one row per
\* (post_date, canonical_url), the newest source post on it.
UpsertArchiveLinks(rows, post) ==
    LET canonicals == {canonicalize_url(link) : link \in post.links}
    IN  {r \in rows : ~(r.post_date = post.published_at /\ r.canonical_url \in canonicals)}
        \cup {[post_date |-> post.published_at, canonical_url |-> canonical,
               source_post_url |-> post.url] : canonical \in canonicals}

\* market.settle_cycle(current_open_cycle.id, post.links) on the tables of st.
SettleIn(st, cycle_id, winner_urls) ==
    LET winner_set == WinnerIds(cycle_id, winner_urls)
        queue == CreditQueue(AccumulateRewards(list_picks(cycle_id), winner_set, <<>>))
        after == CreditAll(queue, cycle_id, st.users, st.chip_ledger)
    IN  [st EXCEPT
            !.cycle_results = {r \in st.cycle_results : r.cycle_id # cycle_id}
                              \cup ResultRows(cycle_id, winner_set),
            !.cycles = [st.cycles EXCEPT ![cycle_id] = SettledRow(NowStamp)],
            !.users = after.users,
            !.chip_ledger = after.chip_ledger]

\* storage.create_cycle(...) on the tables of st; the new cycle is returned.
CreateCycleIn(st) ==
    LET new == Cardinality(DOMAIN st.cycles) + 1
    IN  [st EXCEPT !.cycles = st.cycles @@ (new :> [status |-> "OPEN", closed_at |-> NULL]),
                   !.created = new]

\* `for post in unseen_posts`: the archive rows, the settlement of the
\* current open cycle and the cycle that replaces it, the processed mark.
RECURSIVE SyncPosts(_, _, _)
SyncPosts(unseen_posts, bootstrap_mode, st) ==
    IF unseen_posts = <<>> THEN st
    ELSE LET post == Head(unseen_posts)
             archived == [st EXCEPT !.archive_links = UpsertArchiveLinks(@, post)]
             settled ==
                IF ~bootstrap_mode /\ st.current # NULL
                THEN LET opened == CreateCycleIn(SettleIn(archived, st.current, post.links))
                     IN  [opened EXCEPT
                            !.settlements = Append(@, [cycle_id |-> st.current,
                                                       post_url |-> post.url]),
                            !.current = opened.created]
                ELSE archived
             marked == [settled EXCEPT !.source_posts = @ \cup {post.url}]
         IN  SyncPosts(Tail(unseen_posts), bootstrap_mode, marked)

\* MarginalRevolutionIngestor.sync on the posts fetched from the feed, from
\* its call to its return, nothing else running and nothing failing.
Sync(feed) ==
    LET posts == SortByPublished(feed)
        unseen_posts == SelectSeq(posts,
                            LAMBDA post : ~source_post_seen(source_posts, post.url))
        current_open_cycle == get_open_cycle
        bootstrap_mode == current_open_cycle = NULL
        before == [cycles |-> cycles, cycle_results |-> cycle_results, users |-> users,
                   chip_ledger |-> chip_ledger, source_posts |-> source_posts,
                   archive_links |-> archive_links, settlements |-> <<>>,
                   current |-> current_open_cycle, created |-> NULL]
        looped == SyncPosts(unseen_posts, bootstrap_mode, before)
        after == IF unseen_posts = <<>>
                 THEN (IF get_open_cycle = NULL THEN CreateCycleIn(before) ELSE before)
                 ELSE IF bootstrap_mode THEN CreateCycleIn(looped) ELSE looped
    IN  /\ sync_hist.calls < MaxSyncs
        /\ cycles' = after.cycles
        /\ cycle_results' = after.cycle_results
        /\ users' = after.users
        /\ chip_ledger' = after.chip_ledger
        /\ source_posts' = after.source_posts
        /\ archive_links' = after.archive_links
        /\ sync_hist' =
              [calls |-> sync_hist.calls + 1,
               settlements |-> sync_hist.settlements \o after.settlements,
               returned |->
                  IF unseen_posts = <<>>
                  THEN [processed |-> 0, settlements |-> <<>>, bootstrap_mode |-> "absent"]
                  ELSE [processed |-> Len(unseen_posts),
                        settlements |-> after.settlements,
                        bootstrap_mode |-> IF bootstrap_mode THEN "true" ELSE "false"]]
        /\ UNCHANGED <<candidate_links, picks, click_events, curation_rewards,
                       settleVars, direct_credits, jobVars, now, jobHistVars,
                       settle_returned, prob_returned, candidate_returned, picks_calls,
                       picks_hist, curation_returned, click_hist, faucet_hist,
                       award_hist, norm_call, user_accounts, ai_calls, ai_hist,
                       model_predictions, run_hist>>

\* sync raises on its first unseen post, in mark_source_post_processed: the
\* archive rows, the settlement and the new cycle are committed, the post is
\* not marked, nothing is returned.
SyncFailsAtMark(feed) ==
    LET posts == SortByPublished(feed)
        unseen_posts == SelectSeq(posts,
                            LAMBDA post : ~source_post_seen(source_posts, post.url))
        current_open_cycle == get_open_cycle
        before == [cycles |-> cycles, cycle_results |-> cycle_results, users |-> users,
                   chip_ledger |-> chip_ledger, source_posts |-> source_posts,
                   archive_links |-> archive_links, settlements |-> <<>>,
                   current |-> current_open_cycle, created |-> NULL]
        after == SyncPosts(<<Head(unseen_posts)>>, current_open_cycle = NULL, before)
    IN  /\ sync_hist.calls < MaxSyncs
        /\ unseen_posts # <<>>
        /\ cycles' = after.cycles
        /\ cycle_results' = after.cycle_results
        /\ users' = after.users
        /\ chip_ledger' = after.chip_ledger
        /\ archive_links' = after.archive_links
        /\ sync_hist' = [sync_hist EXCEPT !.calls = @ + 1,
                                          !.settlements = @ \o after.settlements]
        /\ UNCHANGED <<source_posts, candidate_links, picks, click_events,
                       curation_rewards, settleVars, direct_credits, jobVars, now,
                       jobHistVars, settle_returned, prob_returned, candidate_returned,
                       picks_calls, picks_hist, curation_returned, click_hist,
                       faucet_hist, award_hist, norm_call, user_accounts, ai_calls,
                       ai_hist, model_predictions, run_hist>>

\* --------------------------------------------- compute_market_probabilities
\* A table that weighs every rank alike.
RankWeightFlat(rank) == 1

\* RANK_WEIGHTS.get(pick.rank, 1)
RankWeight(rank) == IF rank \in 1..10 THEN 11 - rank ELSE 1

\* weights[candidate_id] after the loop over the picks (0: no key)
RECURSIVE WeightOf(_, _)
WeightOf(pick_rows, candidate_id) ==
    IF pick_rows = <<>> THEN 0
    ELSE (IF Head(pick_rows).candidate_id = candidate_id
          THEN RankWeight(Head(pick_rows).rank) ELSE 0)
         + WeightOf(Tail(pick_rows), candidate_id)

\* sum(weights.values())
RECURSIVE TotalWeight(_)
TotalWeight(pick_rows) ==
    IF pick_rows = <<>> THEN 0
    ELSE RankWeight(Head(pick_rows).rank) + TotalWeight(Tail(pick_rows))

\* list_candidates(cycle_id): ORDER BY created_at ASC
RECURSIVE CandidateListFrom(_, _)
CandidateListFrom(cycle_id, i) ==
    IF i > Len(candidate_links) THEN <<>>
    ELSE (IF candidate_links[i].cycle_id = cycle_id THEN <<i>> ELSE <<>>)
         \o CandidateListFrom(cycle_id, i + 1)

list_candidates(cycle_id) == CandidateListFrom(cycle_id, 1)

\* score / total_weight, kept as the fraction; 0.0 when there is no weight
Probability(score, total_weight) ==
    IF total_weight > 0 THEN [num |-> score, den |-> total_weight]
    ELSE [num |-> 0, den |-> 1]

ProbabilityGreater(a, b) == a.num * b.den > b.num * a.den

\* A sort that puts an entry before the entries of equal probability.
RECURSIVE InsertBeforeEqual(_, _)
InsertBeforeEqual(sorted, item) ==
    IF sorted = <<>> THEN <<item>>
    ELSE IF ~ProbabilityGreater(Head(sorted).market_probability,
                                item.market_probability)
         THEN <<item>> \o sorted
         ELSE <<Head(sorted)>> \o InsertBeforeEqual(Tail(sorted), item)

\* output.sort(key=market_probability, reverse=True): equal keys keep their order
RECURSIVE InsertByProbability(_, _)
InsertByProbability(sorted, item) ==
    IF sorted = <<>> THEN <<item>>
    ELSE IF ProbabilityGreater(item.market_probability,
                               Head(sorted).market_probability)
         THEN <<item>> \o sorted
         ELSE <<Head(sorted)>> \o InsertByProbability(Tail(sorted), item)

RECURSIVE SortByProbability(_)
SortByProbability(output) ==
    IF output = <<>> THEN <<>>
    ELSE InsertByProbability(SortByProbability(SubSeq(output, 1, Len(output) - 1)),
                             output[Len(output)])

compute_market_probabilities(cycle_id) ==
    LET candidates == list_candidates(cycle_id)
        pick_rows == list_picks(cycle_id)
        total_weight == TotalWeight(pick_rows)
    IN  SortByProbability(
            [i \in 1..Len(candidates) |->
                [candidate_id |-> candidates[i],
                 rank_weight_score |-> WeightOf(pick_rows, candidates[i]),
                 market_probability |->
                    Probability(WeightOf(pick_rows, candidates[i]), total_weight)]])

NoProbReturn == [cycle_id |-> NULL, status |-> "", output |-> <<>>]

\* MarketService.compute_market_probabilities: two SELECTs and the return value
ComputeMarketProbabilities(cycle_id) ==
    /\ prob_returned' = [cycle_id |-> cycle_id,
                         status |-> IF cycle_id \in DOMAIN cycles
                                    THEN cycles[cycle_id].status ELSE "",
                         output |-> compute_market_probabilities(cycle_id)]
    /\ UNCHANGED <<chipVars, cycles, marketVars, settleVars, direct_credits,
                   jobVars, now, jobHistVars, settle_returned,
                   candidate_returned, picks_calls, picks_hist,
                   curation_returned, click_hist, faucet_hist, award_hist, norm_call, user_accounts, ai_calls, ai_hist, model_predictions, run_hist, ingestVars>>

\* ------------------------------------------------------------------ clock
TickHour ==
    /\ now.hour < MaxHour
    /\ now' = [now EXCEPT !.hour = @ + 1]
    /\ UNCHANGED <<chipVars, cycles, marketVars, settleVars, callVars, direct_credits,
                   jobVars, jobHistVars>>

TickDay ==
    /\ now.day < MaxDay
    /\ now' = [day |-> now.day + 1, hour |-> 0]
    /\ UNCHANGED <<chipVars, cycles, marketVars, settleVars, callVars, direct_credits,
                   jobVars, jobHistVars>>

\* ================================================================== jobs
IdleCall == [pc |-> "idle", job |-> "none", id |-> <<"none", <<NULL, NULL, NULL>>>>,
             force |-> FALSE, run_date |-> NULL, cycle_id |-> NULL,
             targets |-> <<>>, min_age_hours |-> 0]

NoReturns == [true |-> 0, false |-> 0]

NoRuns == [unforced |-> 0, forced |-> 0]

NoOutcomes == [skipped |-> 0, claimed |-> 0, executed |-> 0, raised |-> 0]

\* The dict a job function returns for one run key, by its `skipped` and
\* `reason` entries ("absent": the dict has no such key).
SkippedOutcomeNoReason == [skipped |-> "true", reason |-> "absent"]

SkippedOutcome == [skipped |-> "true", reason |-> "already_ran"]

ExecutedOutcome == [skipped |-> "false", reason |-> "absent"]

\* run_curation_rewards: {"cycle_id": cycle.id, **result}, the result of
\* MarketService.apply_curation_rewards, which has no `skipped` entry.
CurationOutcome(cycle_id, min_age_hours, force, reward_rows) ==
    [skipped |-> "absent",
     reason |-> IF cycles[cycle_id].status # "SETTLED" THEN "cycle_not_settled"
                ELSE IF ~MarketAwards(cycle_id, min_age_hours, force)
                     THEN "wait_window"
                ELSE IF reward_rows = <<>> THEN "none_or_already_awarded"
                ELSE "ok"]

Returned(hist, id, outcome) == (id :> (Hist(hist, id, {}) \cup {outcome})) @@ hist

\* `if not force and not self.storage.claim_job_run(...)`: the claim is only
\* attempted by an un-forced invocation.  Shared by the four job functions:
\* `call` is the invocation once it is past the claim, `skip` the caller's
\* record when the claim is refused.
ClaimOrSkip(p, job_name, id, run_key, force, call, skip) ==
    LET claim == claim_job_run(job_runs, job_name, run_key)
        proceeds == force \/ claim.ok
    IN  /\ job_runs' = IF force THEN job_runs ELSE claim.job_runs
        /\ claim_returns' =
              IF force THEN claim_returns
              ELSE Bumped(claim_returns, <<job_name, run_key>>, NoReturns,
                          IF claim.ok THEN "true" ELSE "false")
        /\ job_calls' = [job_calls EXCEPT ![p] = IF proceeds THEN call ELSE skip]
        /\ job_outcomes' =
              IF ~proceeds THEN Bumped(job_outcomes, id, NoOutcomes, "skipped")
              ELSE IF force THEN job_outcomes
              ELSE Bumped(job_outcomes, id, NoOutcomes, "claimed")
        /\ job_returned' = IF proceeds THEN job_returned
                           ELSE Returned(job_returned, id, SkippedOutcome)

StartCall(p) ==
    /\ job_calls[p].pc = "idle"
    /\ invocations < MaxInvocations
    /\ invocations' = invocations + 1

\* JobService.run_daily_faucet up to the claim
RunDailyFaucet(p, as_of_date, force) ==
    LET run_date == Today(as_of_date)
    IN  /\ StartCall(p)
        /\ ClaimOrSkip(p, "daily_faucet", FaucetId(run_date), FaucetKey(run_date),
              force,
              [IdleCall EXCEPT !.pc = "body", !.job = "daily_faucet",
                               !.id = FaucetId(run_date), !.force = force,
                               !.run_date = run_date],
              IdleCall)
        /\ UNCHANGED <<chipVars, cycles, marketVars, settleVars, callVars, direct_credits,
                       now, body_runs>>

\* JobService.run_daily_faucet, un-forced, when claim_job_run hits a storage
\* error: the job takes the False for a refused claim and returns the skip.
RunDailyFaucetClaimFails(p, as_of_date) ==
    LET run_date == Today(as_of_date)
        claim == claim_job_run_storage_error(job_runs, "daily_faucet", FaucetKey(run_date))
    IN  /\ StartCall(p)
        /\ ~claim.ok
        /\ job_runs' = claim.job_runs
        /\ claim_returns' = Bumped(claim_returns, <<"daily_faucet", FaucetKey(run_date)>>,
                                   NoReturns, "false")
        /\ job_outcomes' = Bumped(job_outcomes, FaucetId(run_date), NoOutcomes, "skipped")
        /\ job_returned' = Returned(job_returned, FaucetId(run_date), SkippedOutcome)
        /\ UNCHANGED <<chipVars, cycles, marketVars, settleVars, callVars, direct_credits,
                       job_calls, now, body_runs>>

\* The cycle run_models works on: get_cycle(cycle_id), or get_open_cycle().
ModelCycle(cycle_id) == IF cycle_id # NULL THEN cycle_id ELSE get_open_cycle

\* JobService.run_models up to the claim
RunModels(p, cycle_id, force) ==
    LET cycle == ModelCycle(cycle_id)
    IN  /\ StartCall(p)
        /\ cycle \in DOMAIN cycles
        /\ ClaimOrSkip(p, "model_run", ModelId(cycle, now), ModelKey(cycle, now),
              force,
              [IdleCall EXCEPT !.pc = "body", !.job = "model_run",
                               !.id = ModelId(cycle, now), !.force = force,
                               !.cycle_id = cycle],
              IdleCall)
        /\ UNCHANGED <<chipVars, cycles, marketVars, settleVars, callVars, direct_credits,
                       now, body_runs>>

\* JobService.run_models without a cycle id when no cycle is open:
\* skipped, reason no_open_cycle, nothing written.
RunModelsNoCycle(p) ==
    /\ StartCall(p)
    /\ get_open_cycle = NULL
    /\ UNCHANGED <<chipVars, cycles, marketVars, settleVars, callVars, direct_credits,
                   jobVars, now, claim_returns, body_runs, job_outcomes,
                   job_returned>>

\* JobService.sync_assorted_links up to the claim
SyncAssortedLinks(p, force) ==
    /\ StartCall(p)
    /\ ClaimOrSkip(p, "sync_assorted_links", SyncId(now), SyncKey(now), force,
          [IdleCall EXCEPT !.pc = "body", !.job = "sync_assorted_links",
                           !.id = SyncId(now), !.force = force],
          IdleCall)
    /\ UNCHANGED <<chipVars, cycles, marketVars, settleVars, callVars, direct_credits,
                   now, body_runs>>

\* list_cycles(200) filtered on SETTLED: newest first.
RECURSIVE SettledCyclesFrom(_)
SettledCyclesFrom(c) ==
    IF c < 1 THEN <<>>
    ELSE (IF cycles[c].status = "SETTLED" THEN <<c>> ELSE <<>>)
         \o SettledCyclesFrom(c - 1)

\* JobService.run_curation_rewards: the targets
RunCurationRewards(p, cycle_id, force, min_age_hours) ==
    LET targets == IF cycle_id # NULL THEN <<cycle_id>>
                   ELSE SettledCyclesFrom(Cardinality(DOMAIN cycles))
    IN  /\ StartCall(p)
        /\ cycle_id # NULL => cycle_id \in DOMAIN cycles
        /\ job_calls' = [job_calls EXCEPT ![p] =
              IF targets = <<>> THEN IdleCall
              ELSE [IdleCall EXCEPT !.pc = "claim", !.job = "curation_rewards",
                                    !.force = force, !.targets = targets,
                                    !.min_age_hours = min_age_hours]]
        /\ UNCHANGED <<chipVars, cycles, marketVars, settleVars, callVars, direct_credits,
                       job_runs, now, claim_returns, body_runs, job_outcomes,
                       job_returned>>

\* The record of a curation invocation that goes on to its next target.
NextTarget(call) ==
    IF Len(call.targets) = 1 THEN IdleCall
    ELSE [call EXCEPT !.pc = "claim", !.targets = Tail(@)]

\* JobService.run_curation_rewards: the claim for the next target of the loop
CurationClaim(p) ==
    LET call == job_calls[p]
        cycle == Head(call.targets)
    IN  /\ call.pc = "claim"
        /\ ClaimOrSkip(p, "curation_rewards", CurationId(cycle), CurationKey(cycle),
              call.force,
              [call EXCEPT !.pc = "body", !.id = CurationId(cycle),
                           !.cycle_id = cycle],
              NextTarget(call))
        /\ UNCHANGED <<chipVars, cycles, marketVars, settleVars, callVars, direct_credits,
                       now, body_runs, invocations>>

RanBody(call) ==
    Bumped(body_runs, call.id, NoRuns, IF call.force THEN "forced" ELSE "unforced")

\* run_daily_faucet: apply_daily_faucet(run_date), one transaction, and return
FaucetBody(p) ==
    LET call == job_calls[p]
        after == apply_daily_faucet(users, chip_ledger, call.run_date)
    IN  /\ call.pc = "body" /\ call.job = "daily_faucet"
        /\ users' = after.users
        /\ chip_ledger' = after.chip_ledger
        /\ job_calls' = [job_calls EXCEPT ![p] = IdleCall]
        /\ body_runs' = RanBody(call)
        /\ job_outcomes' = Bumped(job_outcomes, call.id, NoOutcomes, "executed")
        /\ job_returned' = Returned(job_returned, call.id, ExecutedOutcome)
        /\ faucet_hist' = FaucetSeen(faucet_hist, call.run_date)
        /\ UNCHANGED <<cycles, marketVars, settleVars, returnVars, direct_credits,
                       job_runs, now, claim_returns, invocations>>

\* run_models: model_runner.run_cycle(cycle.id) returns.  What run_cycle
\* writes (model users, picks, predictions) is outside the job tables.
RunCycleBody(p) ==
    LET call == job_calls[p]
    IN  /\ call.pc = "body" /\ call.job = "model_run"
        /\ job_calls' = [job_calls EXCEPT ![p] = IdleCall]
        /\ body_runs' = RanBody(call)
        /\ job_outcomes' = Bumped(job_outcomes, call.id, NoOutcomes, "executed")
        /\ job_returned' = Returned(job_returned, call.id, ExecutedOutcome)
        /\ UNCHANGED <<chipVars, cycles, marketVars, settleVars, callVars, direct_credits,
                       job_runs, now, claim_returns, invocations>>

\* sync_assorted_links: ingestor.sync(storage, market) returns.  What the sync
\* writes (archive links, settlements, new cycles) is outside the job tables.
SyncBody(p) ==
    LET call == job_calls[p]
    IN  /\ call.pc = "body" /\ call.job = "sync_assorted_links"
        /\ job_calls' = [job_calls EXCEPT ![p] = IdleCall]
        /\ body_runs' = RanBody(call)
        /\ job_outcomes' = Bumped(job_outcomes, call.id, NoOutcomes, "executed")
        /\ job_returned' = Returned(job_returned, call.id, ExecutedOutcome)
        /\ UNCHANGED <<chipVars, cycles, marketVars, settleVars, callVars, direct_credits,
                       job_runs, now, claim_returns, invocations>>

\* run_curation_rewards: market.apply_curation_rewards for the claimed target;
\* `done` reward rows are committed, and the call raises when that is not all.
CurationBody(p, done) ==
    LET call == job_calls[p]
        reward_rows == IF MarketAwards(call.cycle_id, call.min_age_hours, call.force)
                       THEN CurationRowsToApply(call.cycle_id)
                       ELSE <<>>
        after == CurationApplied(call.cycle_id, reward_rows, done, users,
                                 chip_ledger, curation_rewards)
        raised == done < Len(reward_rows)
    IN  /\ call.pc = "body" /\ call.job = "curation_rewards"
        /\ done \in 0..Len(reward_rows)
        /\ users' = after.users
        /\ chip_ledger' = after.chip_ledger
        /\ curation_rewards' = after.curation_rewards
        /\ job_calls' = [job_calls EXCEPT ![p] =
                            IF raised THEN IdleCall ELSE NextTarget(call)]
        /\ body_runs' = RanBody(call)
        /\ job_outcomes' = Bumped(job_outcomes, call.id, NoOutcomes,
                                  IF raised THEN "raised" ELSE "executed")
        /\ job_returned' =
              IF raised THEN job_returned
              ELSE Returned(job_returned, call.id,
                            CurationOutcome(call.cycle_id, call.min_age_hours,
                                            call.force, reward_rows))
        /\ award_hist' = AwardSeen(award_hist, call.cycle_id, reward_rows, done)
        /\ UNCHANGED <<cycles, candidate_links, picks, cycle_results, click_events,
                       settleVars, direct_credits, job_runs, now, claim_returns,
                       invocations,
                       settle_returned, prob_returned, candidate_returned, picks_calls,
                       picks_hist, curation_returned, click_hist, faucet_hist, norm_call, user_accounts, ai_calls, ai_hist, model_predictions, run_hist, ingestVars>>

\* The body of a job raises before it has committed anything: the job function
\* lets the exception through, the marker stays.
JobBodyRaises(p) ==
    LET call == job_calls[p]
    IN  /\ call.pc = "body"
        /\ job_calls' = [job_calls EXCEPT ![p] = IdleCall]
        /\ body_runs' = RanBody(call)
        /\ job_outcomes' = Bumped(job_outcomes, call.id, NoOutcomes, "raised")
        /\ UNCHANGED <<chipVars, cycles, marketVars, settleVars, callVars, direct_credits,
                       job_runs, now, claim_returns, invocations, job_returned>>

\* ============================================================ model agents
\* Probabilities are exact: a float p is the pair [num, den] with p = num/den,
\* and a raw score is an integer.
SumScores(scores) ==
    LET RECURSIVE Sum(_)
        Sum(S) == IF S = {} THEN 0
                  ELSE LET k == CHOOSE x \in S : TRUE
                       IN  scores[k] + Sum(S \ {k})
    IN  Sum(DOMAIN scores)

\* _normalize_probabilities(probs, candidates); `candidates` holds the ids.
\* setdefault adds the candidates to whatever keys the raw output has, and
\* the total runs over all of those keys.
normalize_probabilities(probs, candidates) ==
    LET ids == SeqRange(candidates)
        defaulted == [k \in DOMAIN probs \cup ids |->
                          IF k \in DOMAIN probs THEN probs[k] ELSE 0]
        safe_scores == [k \in DOMAIN defaulted |->
                            IF defaulted[k] > 0 THEN defaulted[k] ELSE 0]
        total == SumScores(safe_scores)
    IN  IF total <= 0
        THEN [c \in ids |-> [num |-> 1, den |-> Len(candidates)]]
        ELSE [c \in ids |-> [num |-> safe_scores[c], den |-> total]]

NoNormCall == [probs |-> <<>>, candidates |-> <<>>, result |-> <<>>]

\* What a strategy's predict_probabilities may hand back: scores, negative
\* ones too, under candidate ids and under keys that are no candidate.
RawKeys == 1..(MaxCands + 1)
RawValues == (0 - 1)..MaxCands
RawOutputs == UNION {[K -> RawValues] : K \in SUBSET RawKeys}

NormalizeProbabilities(probs, candidates) ==
    /\ norm_call' = [probs |-> probs, candidates |-> candidates,
                     result |-> normalize_probabilities(probs, candidates)]
    /\ UNCHANGED <<chipVars, cycles, marketVars, settleVars, direct_credits, jobVars,
                   now, jobHistVars, settle_returned, prob_returned,
                   candidate_returned, picks_calls, picks_hist, curation_returned,
                   click_hist, award_hist, faucet_hist, user_accounts, ai_calls, ai_hist, model_predictions, run_hist, ingestVars>>

\* ---------------------------------------------------- get_or_create_ai_user
ModelIds == {"alpha", "beta"}

\* email = f"model:{model_id}@local"
AiEmail(model_id) == <<"model", model_id, "local">>

\* get_user_by_email: SELECT * FROM users WHERE email = ?
get_user_by_email(accounts, email) ==
    IF \E u \in DOMAIN accounts : accounts[u].email = email
    THEN CHOOSE u \in DOMAIN accounts : accounts[u].email = email
    ELSE NULL

\* users.email is UNIQUE: the INSERT of create_user fails on a second row
\* with the same email.
EmailTaken(accounts, email) == \E u \in DOMAIN accounts : accounts[u].email = email

\* create_user(display_name=model_id, email=email, account_type="AI"): the
\* users row and the signup bonus, one transaction.
CreateAiUser(us, led, accounts, model_id, created) ==
    LET user_id == Len(us) + 1
    IN  [user_id |-> user_id,
         users |-> Append(us, NewUserRow(created)),
         chip_ledger |-> SignupLedger(led, user_id),
         user_accounts |-> (user_id :> [email |-> AiEmail(model_id),
                                         account_type |-> "AI"]) @@ accounts]

\* get_or_create_ai_user run without interruption
get_or_create_ai_user(us, led, accounts, model_id, created) ==
    LET existing == get_user_by_email(accounts, AiEmail(model_id))
    IN  IF existing # NULL
        THEN [user_id |-> existing, users |-> us, chip_ledger |-> led,
              user_accounts |-> accounts]
        ELSE CreateAiUser(us, led, accounts, model_id, created)

IdleAiCall == [pc |-> "idle", model_id |-> ""]

NoAiHist == [returned |-> [m \in ModelIds |-> {}], raised |-> {}]

\* get_or_create_ai_user: the SELECT by email; a row found is returned.
AiUserSelect(p, model_id) ==
    LET existing == get_user_by_email(user_accounts, AiEmail(model_id))
    IN  /\ ai_calls[p].pc = "idle"
        /\ ai_calls' = [ai_calls EXCEPT ![p] =
              IF existing # NULL THEN IdleAiCall
              ELSE [pc |-> "create", model_id |-> model_id]]
        /\ ai_hist' = IF existing = NULL THEN ai_hist
                       ELSE [ai_hist EXCEPT !.returned[model_id] = @ \cup {existing}]
        /\ UNCHANGED <<chipVars, cycles, marketVars, settleVars, direct_credits,
                       jobVars, now, jobHistVars, settle_returned, prob_returned,
                       candidate_returned, picks_calls, picks_hist,
                       curation_returned, click_hist, award_hist, faucet_hist,
                       norm_call, user_accounts, model_predictions, run_hist, ingestVars>>

\* get_or_create_ai_user: create_user after a SELECT that found nothing; the
\* transaction raises IntegrityError and rolls back when the email has been
\* inserted in the meantime.
AiUserCreate(p) ==
    LET model_id == ai_calls[p].model_id
        taken == EmailTaken(user_accounts, AiEmail(model_id))
        after == CreateAiUser(users, chip_ledger, user_accounts, model_id, now.day)
    IN  /\ ai_calls[p].pc = "create"
        /\ ai_calls' = [ai_calls EXCEPT ![p] = IdleAiCall]
        /\ users' = IF taken THEN users ELSE after.users
        /\ chip_ledger' = IF taken THEN chip_ledger ELSE after.chip_ledger
        /\ user_accounts' = IF taken THEN user_accounts ELSE after.user_accounts
        /\ ai_hist' =
              IF taken THEN [ai_hist EXCEPT !.raised = @ \cup {model_id}]
              ELSE [ai_hist EXCEPT !.returned[model_id] = @ \cup {after.user_id}]
        /\ UNCHANGED <<cycles, marketVars, settleVars, direct_credits,
                       jobVars, now, jobHistVars, settle_returned, prob_returned,
                       candidate_returned, picks_calls, picks_hist,
                       curation_returned, click_hist, award_hist, faucet_hist,
                       norm_call, model_predictions, run_hist, ingestVars>>

\* ---------------------------------------------------------------- run_cycle
\* sorted(candidates, key=probability, reverse=True): the sort is stable, a
\* candidate goes behind those of equal probability listed before it.
InsertRankedBeforeEqual(ranked, candidate, probabilities) ==
    LET ahead == {i \in 1..Len(ranked) :
                    ProbabilityGreater(probabilities[ranked[i]], probabilities[candidate])}
    IN  SubSeq(ranked, 1, Cardinality(ahead)) \o <<candidate>>
        \o SubSeq(ranked, Cardinality(ahead) + 1, Len(ranked))

InsertRanked(ranked, candidate, probabilities) ==
    LET ahead == {i \in 1..Len(ranked) :
                    ~ProbabilityGreater(probabilities[candidate], probabilities[ranked[i]])}
    IN  SubSeq(ranked, 1, Cardinality(ahead)) \o <<candidate>>
        \o SubSeq(ranked, Cardinality(ahead) + 1, Len(ranked))

RECURSIVE RankedCandidates(_, _)
RankedCandidates(candidates, probabilities) ==
    IF candidates = <<>> THEN <<>>
    ELSE InsertRanked(RankedCandidates(SubSeq(candidates, 1, Len(candidates) - 1),
                                       probabilities),
                      candidates[Len(candidates)], probabilities)

Least(S) == CHOOSE x \in S : \A y \in S : x <= y

\* pick_cap = max(0, min(config.max_daily_picks, MAX_PICKS_PER_CYCLE, len(ranked)))
pick_cap(config, ranked_candidates) ==
    LET least == Least({config.max_daily_picks, MAX_PICKS_PER_CYCLE,
                        Len(ranked_candidates)})
    IN  IF least < 0 THEN 0 ELSE least

\* not explanation.strip()
Blank(explanation) == explanation \in {"", " "}

\* strategy.explain_choice(config, candidate, probability, selected)
Explain(behaviour, selected) ==
    IF selected THEN behaviour.selected ELSE behaviour.unselected

\* An INSERT that leaves the row of the same key in place.
InsertModelPrediction(preds, cycle_id, model_user_id, candidate_id, probability, explanation) ==
    preds \cup {[cycle_id |-> cycle_id, model_user_id |-> model_user_id,
                 candidate_id |-> candidate_id, probability |-> probability,
                 explanation |-> explanation]}

\* INSERT ... ON CONFLICT(cycle_id, model_user_id, candidate_id) DO UPDATE
upsert_model_prediction(preds, cycle_id, model_user_id, candidate_id, probability, explanation) ==
    {r \in preds : ~(/\ r.cycle_id = cycle_id
                     /\ r.model_user_id = model_user_id
                     /\ r.candidate_id = candidate_id)}
    \cup {[cycle_id |-> cycle_id, model_user_id |-> model_user_id,
           candidate_id |-> candidate_id, probability |-> probability,
           explanation |-> explanation]}

\* The loop over the candidates: each prediction is upserted and committed
\* on its own, a blank explanation for a selected candidate raises and
\* leaves what the loop has committed so far.
RECURSIVE PredictionsFrom(_, _, _, _, _, _, _, _)
PredictionsFrom(preds, cycle_id, model_user_id, candidates, i, selected_id_set, probabilities, behaviour) ==
    IF i > Len(candidates) THEN [model_predictions |-> preds, raised |-> FALSE]
    ELSE LET candidate == candidates[i]
             selected == candidate \in selected_id_set
             explanation == Explain(behaviour, selected)
         IN  IF selected /\ Blank(explanation)
             THEN [model_predictions |-> preds, raised |-> TRUE]
             ELSE PredictionsFrom(
                    upsert_model_prediction(preds, cycle_id, model_user_id, candidate,
                                            probabilities[candidate], explanation),
                    cycle_id, model_user_id, candidates, i + 1, selected_id_set,
                    probabilities, behaviour)

\* run_cycle for one config of self.configs, given what its strategy answers
\* (`out`); `st` holds the tables and the record of the run so far.
RunConfig(st, cycle_id, candidates, config, out) ==
    IF ~config.enabled
    THEN [st EXCEPT !.runs = Append(@, [config |-> config, model_user_id |-> NULL,
                                        probabilities |-> <<>>,
                                        explain |-> out.explain])]
    ELSE LET model_user == get_or_create_ai_user(st.users, st.chip_ledger,
                                                 st.user_accounts, config.id, now.day)
             probabilities == normalize_probabilities(out.probs, candidates)
             ranked_candidates == RankedCandidates(candidates, probabilities)
             selected_ids == SubSeq(ranked_candidates, 1,
                                    pick_cap(config, ranked_candidates))
             written == PredictionsFrom(st.model_predictions, cycle_id,
                                        model_user.user_id, candidates, 1,
                                        SeqRange(selected_ids), probabilities,
                                        out.explain)
         IN  [users |-> model_user.users,
              chip_ledger |-> model_user.chip_ledger,
              user_accounts |-> model_user.user_accounts,
              picks |-> PicksWritten(st.picks, cycle_id, model_user.user_id,
                                     selected_ids),
              model_predictions |-> written.model_predictions,
              raised |-> written.raised,
              runs |-> Append(st.runs, [config |-> config,
                                        model_user_id |-> model_user.user_id,
                                        probabilities |-> probabilities,
                                        explain |-> out.explain])]

\* `for config in self.configs`, left by the first config that raises
RECURSIVE RunConfigs(_, _, _, _, _, _)
RunConfigs(st, cycle_id, candidates, configs, outs, i) ==
    IF i > Len(configs) \/ st.raised THEN st
    ELSE RunConfigs(RunConfig(st, cycle_id, candidates, configs[i], outs[i]),
                    cycle_id, candidates, configs, outs, i + 1)

\* The record of the last run_cycle; `conflict`: a prediction of a model the
\* run reached was already stored for the cycle (the upsert met its row).
NoRunHist == [cycle_id |-> NULL, candidates |-> <<>>, raised |-> FALSE, runs |-> <<>>,
              conflict |-> FALSE]

\* ModelRunner.run_cycle(cycle_id) for a runner whose configs are `configs`
\* and whose strategies answer `outs`; no candidates: return {}.
RunCycle(cycle_id, configs, outs) ==
    LET candidates == list_candidates(cycle_id)
        start == [users |-> users, chip_ledger |-> chip_ledger,
                  user_accounts |-> user_accounts, picks |-> picks,
                  model_predictions |-> model_predictions, raised |-> FALSE,
                  runs |-> <<>>]
    IN  \E after \in {IF candidates = <<>> THEN start
                       ELSE RunConfigs(start, cycle_id, candidates, configs, outs, 1)} :
            /\ users' = after.users
            /\ chip_ledger' = after.chip_ledger
            /\ user_accounts' = after.user_accounts
            /\ picks' = after.picks
            /\ model_predictions' = after.model_predictions
            /\ run_hist' =
                  [cycle_id |-> cycle_id, candidates |-> candidates,
                   raised |-> after.raised, runs |-> after.runs,
                   conflict |-> \E r \in model_predictions :
                                  /\ r.cycle_id = cycle_id
                                  /\ \E i \in 1..Len(after.runs) :
                                        after.runs[i].model_user_id = r.model_user_id]
            /\ UNCHANGED <<cycles, candidate_links, cycle_results, click_events,
                           curation_rewards, settleVars, direct_credits, jobVars,
                           now, jobHistVars, settle_returned, prob_returned,
                           candidate_returned, picks_calls, picks_hist,
                           curation_returned, click_hist, award_hist, faucet_hist,
                           norm_call, ai_calls, ai_hist, ingestVars>>

\* ========================================================= specifications
\* A market as the operations leave it before any settlement: `nu` users created
\* on day 0, `nc` open cycles, candidates submitted by users of `submitters`,
\* pick lists of at most `max_len` ids, clicks with fingerprints of `fps`.
CandidateRows(nu, nc, submitters) ==
    [cycle_id : 1..nc, submitted_by_user_id : submitters \cap (1..nu),
     canonical_url : {canonicalize_url(url) : url \in Urls}]

CandidateTables(nu, nc, submitters) ==
    {t \in SeqsUpTo(CandidateRows(nu, nc, submitters), MaxCands) :
        \A i, j \in 1..Len(t) :
            (t[i].cycle_id = t[j].cycle_id /\ t[i].canonical_url = t[j].canonical_url)
                => i = j}

PickTables(nu, nc, cands, max_len) ==
    LET ids_of(c) == {i \in 1..Len(cands) : cands[i].cycle_id = c}
        batches == UNION {[cycle_id : {c}, user_id : 1..nu,
                           ids : {l \in SeqsUpTo(ids_of(c), max_len) :
                                     l # <<>> /\ IsInjective(l)}] : c \in 1..nc}
    IN  {t \in SeqsUpTo(batches, nu * nc) :
            \A i, j \in 1..Len(t) :
                (t[i].cycle_id = t[j].cycle_id /\ t[i].user_id = t[j].user_id)
                    => i = j}

ClickTables(cands, fps) ==
    SUBSET [candidate_id : 1..Len(cands), fingerprint_hash : fps]

SignupLedgers(nu) ==
    [u \in 1..nu |-> [user_id |-> u, cycle_id |-> NULL,
                      event_type |-> "signup_bonus", chips_delta |-> STARTING_CHIPS]]

NoSyncReturn == [processed |-> 0, settlements |-> <<>>, bootstrap_mode |-> "absent"]

NoSyncHist == [calls |-> 0, settlements |-> <<>>, returned |-> NoSyncReturn]

Quiet ==
    /\ cycle_results = {}
    /\ curation_rewards = {}
    /\ settle_calls = [p \in Settlers |-> IdleSettle]
    /\ settle_hist = [c \in AllCycleIds |-> [started |-> 0, failed |-> 0]]
    /\ direct_credits = 0
    /\ job_runs = <<>>
    /\ now = [day |-> 0, hour |-> 0]
    /\ job_calls = [p \in Callers |-> IdleCall]
    /\ claim_returns = <<>>
    /\ body_runs = <<>>
    /\ job_outcomes = <<>>
    /\ job_returned = <<>>
    /\ invocations = 0
    /\ settle_returned = NoSettleReturn
    /\ prob_returned = NoProbReturn
    /\ candidate_returned = NoCandidateReturn
    /\ picks_calls = [p \in Callers |-> IdlePicksCall]
    /\ picks_hist = NoPicksHist
    /\ curation_returned = NoCurationReturn
    /\ source_posts = {}
    /\ archive_links = {}
    /\ sync_hist = NoSyncHist
    /\ run_hist = NoRunHist
    /\ model_predictions = {}
    /\ ai_hist = NoAiHist
    /\ ai_calls = [p \in Callers |-> IdleAiCall]
    /\ user_accounts = <<>>
    /\ norm_call = NoNormCall
    /\ award_hist = NoAwardHist
    /\ faucet_hist = <<>>
    /\ click_hist = NoClickHist

\* The state after Storage(...) has created the schema: every table is empty.
Init ==
    /\ Quiet
    /\ users = <<>>
    /\ chip_ledger = <<>>
    /\ cycles = <<>>
    /\ candidate_links = <<>>
    /\ picks = <<>>
    /\ click_events = {}

MarketSetup(user_counts, cycle_counts, submitters, max_len, fps) ==
    /\ Quiet
    /\ \E nu \in user_counts, nc \in cycle_counts :
        /\ users = [u \in 1..nu |-> NewUserRow(0)]
        /\ chip_ledger = SignupLedgers(nu)
        /\ cycles = [c \in 1..nc |-> [status |-> "OPEN", closed_at |-> NULL]]
        /\ candidate_links \in CandidateTables(nu, nc, submitters)
        /\ picks \in PickTables(nu, nc, candidate_links, max_len)
        /\ click_events \in ClickTables(candidate_links, fps)

\* Settlement: concurrent settle_cycle calls on markets of MaxUsers users.
SettleInit == MarketSetup({MaxUsers}, 0..MaxCycles, {1}, MaxCands, {})

SettleNext ==
    \/ CreateCycle
    \/ \E p \in Settlers, c \in CycleIds, w \in SUBSET Urls : SettleSave(p, c, w)
    \/ \E c \in CycleIds : SettleSaveFails(c)
    \/ \E p \in Settlers : SettleReadPicks(p)
    \/ \E p \in Settlers : SettleCredit(p)
    \/ \E p \in Settlers : SettleFails(p)

SpecSettle == SettleInit /\ [][SettleNext]_vars

\* ------------------------------------------------- claims on settlement
RewardEntries(cycle_id, user_id) ==
    {i \in 1..Len(chip_ledger) :
        /\ chip_ledger[i].event_type = "prediction_reward"
        /\ chip_ledger[i].cycle_id = cycle_id
        /\ chip_ledger[i].user_id = user_id}

SettleInProgress(cycle_id) ==
    \E p \in Settlers :
        settle_calls[p].pc # "idle" /\ settle_calls[p].cycle_id = cycle_id

\* C6: a cycle is settled exactly once: whatever the sequence or interleaving
\* of settle_cycle calls on a cycle, each user receives at most one
\* prediction_reward credit for that cycle.
C6_AtMostOneRewardPerCycle ==
    \A c \in CycleIds, u \in DOMAIN users : Cardinality(RewardEntries(c, u)) <= 1

\* C7: every cycle is created OPEN, a SETTLED cycle never becomes OPEN (or
\* disappears) again, and closed_at is null exactly while the cycle is OPEN.
C7_StatusMonotonic ==
    /\ [](\A c \in DOMAIN cycles :
            /\ cycles[c].status \in {"OPEN", "SETTLED"}
            /\ (cycles[c].closed_at = NULL) <=> (cycles[c].status = "OPEN"))
    /\ [][/\ \A c \in DOMAIN cycles :
                /\ c \in DOMAIN cycles'
                /\ cycles[c].status = "SETTLED" => cycles'[c].status = "SETTLED"
          /\ \A c \in (DOMAIN cycles') \ (DOMAIN cycles) :
                cycles'[c].status = "OPEN"]_vars

\* A cycle has been settled by two completed settle_cycle calls and is SETTLED.
C7_ResettledCycle ==
    \E c \in DOMAIN cycles :
        /\ cycles[c].status = "SETTLED"
        /\ settle_hist[c].started >= 2
        /\ ~SettleInProgress(c)

C9_FailedSettleLeavesNothing ==
    \A c \in DOMAIN cycles :
        (settle_hist[c].started = 1 /\ settle_hist[c].failed = 1
            /\ ~SettleInProgress(c))
        => /\ cycles[c].status = "OPEN"
           /\ ResultsOf(c) = {}
           /\ \A u \in DOMAIN users : RewardEntries(c, u) = {}

HasWinningPick(p, user_id) ==
    LET rows == list_picks(settle_calls[p].cycle_id)
    IN  \E i \in 1..Len(rows) :
            /\ rows[i].user_id = user_id
            /\ rows[i].candidate_id \in settle_calls[p].winner_set

\* C10: settle_cycle never decreases a balance: every prediction_reward delta
\* is >= 0, no step of a settlement lowers a balance, and a balance changes
\* only for a user who has a winning pick in the cycle being settled.
C10_SettleNeverDecreases ==
    [][/\ \A i \in 1..Len(chip_ledger') :
            chip_ledger'[i].event_type = "prediction_reward"
                => chip_ledger'[i].chips_delta >= 0
       /\ \A u \in DOMAIN users :
            /\ users'[u].current_chips >= users[u].current_chips
            /\ users'[u].current_chips # users[u].current_chips
                => \E p \in Settlers :
                      settle_calls[p].pc = "credit" /\ HasWinningPick(p, u)]_vars

\* A settled cycle has rewarded one user, and another user who picked in it,
\* without a winning pick, still has the starting balance.
C10_LoserKeepsBalance ==
    \E c \in DOMAIN cycles, u, v \in DOMAIN users :
        /\ cycles[c].status = "SETTLED"
        /\ ~SettleInProgress(c)
        /\ RewardEntries(c, u) # {}
        /\ \E i \in 1..Len(picks) : picks[i].cycle_id = c /\ picks[i].user_id = v
        /\ RewardEntries(c, v) = {}
        /\ users[v].current_chips = STARTING_CHIPS

\* The job orchestrator: concurrent job invocations, forced and un-forced,
\* on a market of one user with or without an open cycle, while the hour
\* advances.
JobsInit == MarketSetup({1}, 0..MaxCycles, {1}, 0, {})

JobsNext ==
    \/ TickHour
    \/ \E p \in Callers, d \in Days \cup {NULL}, force \in BOOLEAN :
            RunDailyFaucet(p, d, force)
    \/ \E p \in Callers, c \in CycleIds \cup {NULL}, force \in BOOLEAN :
            RunModels(p, c, force)
    \/ \E p \in Callers : RunModelsNoCycle(p)
    \/ \E p \in Callers, force \in BOOLEAN : SyncAssortedLinks(p, force)
    \/ \E p \in Callers, c \in CycleIds \cup {NULL}, force \in BOOLEAN :
            RunCurationRewards(p, c, force, 24)
    \/ \E p \in Callers : CurationClaim(p)
    \/ \E p \in Callers : FaucetBody(p)
    \/ \E p \in Callers : RunCycleBody(p)
    \/ \E p \in Callers : SyncBody(p)
    \/ \E p \in Callers, done \in 0..MaxUsers : CurationBody(p, done)
    \/ \E p \in Callers : JobBodyRaises(p)

SpecJobs == JobsInit /\ [][JobsNext]_vars

\* The chip economy: every operation that moves chips, with one call of
\* settle_cycle, on a market of one user and an empty cycle, or of MaxUsers users
\* and a cycle with MaxCands candidates, clicked once each, and two users' picks.
ChipDeltas == {0 - 5, 0, 5}

CanonicalUrls == {canonicalize_url(url) : url \in Urls}

ChipsInit ==
    /\ MarketSetup({1, MaxUsers}, {1}, UserIds, 1, {1})
    /\ Len(candidate_links) = (IF Len(users) = 1 THEN 0 ELSE MaxCands)
    /\ Len(picks) = (IF Len(users) = 1 THEN 0 ELSE 2)
    /\ click_events = [candidate_id : 1..Len(candidate_links), fingerprint_hash : {1}]

ChipsNext ==
    \/ \E d \in Days : CreateUser(d)
    \/ \E u \in UserIds, d \in ChipDeltas : CreditUserChips(u, d)
    \/ \E d \in Days : ApplyDailyFaucet(d)
    \/ \E c \in CycleIds, w \in SUBSET CanonicalUrls :
            SettleCallsStarted = 0 /\ SettleSave(1, c, w)
    \/ SettleReadPicks(1)
    \/ SettleCredit(1)
    \/ SettleFails(1)
    \/ \E c \in CycleIds, done \in 0..MaxUsers : ApplyCurationRewards(c, done)

SpecChips == ChipsInit /\ [][ChipsNext]_vars

\* ------------------------------------------------- claims on the chips
RECURSIVE LedgerSum(_, _)
LedgerSum(user_id, n) ==
    IF n = 0 THEN 0
    ELSE (IF chip_ledger[n].user_id = user_id THEN chip_ledger[n].chips_delta ELSE 0)
         + LedgerSum(user_id, n - 1)

\* C5: in every reachable state each user's current_chips is the sum of the
\* chips_delta of that user's chip_ledger entries, whatever calls of
\* create_user, credit_user_chips, apply_daily_faucet, settle_cycle and
\* apply_curation_rewards have run or failed partway.
C5_BalanceIsLedgerSum ==
    \A u \in DOMAIN users :
        users[u].current_chips = LedgerSum(u, Len(chip_ledger))

\* A settle_cycle call that failed has left a prediction_reward behind, and
\* apply_curation_rewards has stopped after the first of its two rows.
C5_AfterPartialFailures ==
    \E c \in DOMAIN cycles :
        /\ settle_hist[c].failed > 0
        /\ \E i \in 1..Len(chip_ledger) :
              /\ chip_ledger[i].event_type = "prediction_reward"
              /\ chip_ledger[i].cycle_id = c
        /\ Cardinality({r \in curation_rewards : r.cycle_id = c}) = 1
        /\ Len(compute_curation_reward_rows(c)) = 2

\* Submissions: create_candidate calls of two users on two open cycles.
CandidatesInit ==
    /\ Quiet
    /\ users = [u \in UserIds |-> NewUserRow(0)]
    /\ chip_ledger = SignupLedgers(MaxUsers)
    /\ cycles = [c \in AllCycleIds |-> [status |-> "OPEN", closed_at |-> NULL]]
    /\ candidate_links = <<>>
    /\ picks = <<>>
    /\ click_events = {}

CandidatesNext ==
    \E c \in AllCycleIds, u \in UserIds, url \in AllUrls : CreateCandidate(c, u, url)

SpecCandidates == CandidatesInit /\ [][CandidatesNext]_vars

\* ------------------------------------------------- claims on candidates
\* The canonical form the claim speaks of: the URL without its tracking
\* parameter.
WithoutTracking(url) ==
    <<url[1],
      IF url[2] \in {"utm_source", "utm_campaign", "UTM_Source", "fbclid"}
      THEN "" ELSE url[2]>>

\* C14: no two candidates of a cycle have the same canonical URL, and a
\* create_candidate call for a URL whose canonical form is already in the cycle
\* writes nothing and returns the existing candidate (same id, same
\* submitter), while a URL with another canonical form gets a new record.
C14_OneCandidatePerCanonicalUrl ==
    /\ [](\A i, j \in CandidateIds :
            (/\ candidate_links[i].cycle_id = candidate_links[j].cycle_id
             /\ WithoutTracking(candidate_links[i].canonical_url)
                    = WithoutTracking(candidate_links[j].canonical_url))
                => i = j)
    /\ [][candidate_returned' # candidate_returned =>
            LET r == candidate_returned'
                there == {i \in CandidateIds :
                            /\ candidate_links[i].cycle_id = r.cycle_id
                            /\ candidate_links[i].canonical_url
                                    = WithoutTracking(r.url)}
            IN  IF there # {}
                THEN /\ candidate_links' = candidate_links
                     /\ r.id \in there
                     /\ ~r.created
                ELSE /\ r.created
                     /\ r.id = Len(candidate_links) + 1
                     /\ Len(candidate_links') = Len(candidate_links) + 1
                     /\ SubSeq(candidate_links', 1, Len(candidate_links))
                            = candidate_links
                     /\ candidate_links'[r.id].canonical_url
                            = WithoutTracking(r.url)]_vars

\* A cycle holds two candidates, and the last call, for the URL of the first
\* with a tracking parameter on it, returned the first one and wrote nothing.
C14_DuplicateReturnedExisting ==
    /\ ~candidate_returned.created
    /\ candidate_returned.id = 1
    /\ candidate_returned.url[2] = "utm_campaign"
    /\ Len(candidate_links) = 2
    /\ candidate_links[2].cycle_id = candidate_links[1].cycle_id
    /\ candidate_links[1].submitted_by_user_id = 1

\* ------------------------------------------------- the pick market
\* A market of NumPickers users and two open cycles: the first cycle has one
\* candidate more than a user may pick, the second one has a single candidate,
\* with the canonical URL of the first candidate of the first cycle.
Pickers == 1..NumPickers

NumFirstCycleCands == MAX_PICKS_PER_CYCLE + 1

OtherCycleCand == NumFirstCycleCands + 1

UnknownCand == NumFirstCycleCands + 2

PickMarketInit ==
    /\ Quiet
    /\ users = [u \in Pickers |-> NewUserRow(0)]
    /\ chip_ledger = SignupLedgers(NumPickers)
    /\ cycles = [c \in 1..2 |-> [status |-> "OPEN", closed_at |-> NULL]]
    /\ candidate_links =
          [i \in 1..OtherCycleCand |->
              IF i <= NumFirstCycleCands
              THEN [cycle_id |-> 1, submitted_by_user_id |-> 1,
                    canonical_url |-> canonicalize_url(<<i, "">>)]
              ELSE [cycle_id |-> 2, submitted_by_user_id |-> 2,
                    canonical_url |-> canonicalize_url(<<1, "">>)]]
    /\ picks = <<>>
    /\ click_events = {}

Prefix(n) == [i \in 1..n |-> i]

\* The lists of candidate ids the users submit.
PickLists ==
    {<<>>, <<1>>, <<2, 1>>, Prefix(MAX_PICKS_PER_CYCLE), Prefix(NumFirstCycleCands),
     <<1, 1>>, <<OtherCycleCand>>, <<1, OtherCycleCand>>, <<UnknownCand>>}

\* The winner URL lists the cycles are settled with.
WinnerUrlLists ==
    {{}, {<<1, "">>}, {<<1, "utm_source">>, <<2, "">>, <<1, "fbclid">>},
     {<<MAX_PICKS_PER_CYCLE, "">>, <<UnknownCand, "">>}, {<<1, "id">>},
     {<<i, "">> : i \in 1..NumFirstCycleCands}}

\* Settlement of the pick market: picks are submitted, then one settle_cycle
\* call runs.
RankingNext ==
    \/ \E c \in 1..2, u \in Pickers, ids \in PickLists : SetRankedPicks(c, u, ids)
    \/ \E c \in 1..2, w \in WinnerUrlLists :
            SettleCallsStarted = 0 /\ SettleCycle(c, w)

SpecRanking == PickMarketInit /\ [][RankingNext]_vars

\* The market probabilities of the pick market.
ProbabilitiesNext ==
    \/ \E c \in 1..2, u \in Pickers, ids \in PickLists : SetRankedPicks(c, u, ids)
    \/ \E c \in 1..2 : ComputeMarketProbabilities(c)
    \/ \E c \in 1..2 : SettleCallsStarted = 0 /\ SettleCycle(c, {<<1, "">>})

SpecProbabilities == PickMarketInit /\ [][ProbabilitiesNext]_vars

\* Pick submissions of the pick market: callers that run beside each other,
\* transactions that fail, and calls that are rejected.
PicksNext ==
    \/ \E p \in Callers, c \in 1..2, u \in Pickers, ids \in PickLists :
            PicksBegin(p, c, u, ids)
    \/ \E p \in Callers : PicksCommit(p)
    \/ \E p \in Callers, done \in 0..MAX_PICKS_PER_CYCLE : PicksFail(p, done)
    \/ \E c \in 1..2, u \in Pickers, ids \in PickLists :
            SetRankedPicksRaises(c, u, ids)

SpecPicks == PickMarketInit /\ [][PicksNext]_vars

\* The curation market: four submitters with a candidate each in cycle 1,
\* the first two with a second one, the last with one in cycle 2, and every
\* candidate with up to MaxFingerprints counted clicks.
Submitters4 == 1..(NumPickers + 1)

CurationCandidates ==
    [i \in 1..(NumPickers + 4) |->
        IF i \in Submitters4
        THEN [cycle_id |-> 1, submitted_by_user_id |-> i,
              canonical_url |-> canonicalize_url(<<i, "">>)]
        ELSE IF i <= NumPickers + 3
        THEN [cycle_id |-> 1, submitted_by_user_id |-> i - (NumPickers + 1),
              canonical_url |-> canonicalize_url(<<i, "">>)]
        ELSE [cycle_id |-> 2, submitted_by_user_id |-> NumPickers + 1,
              canonical_url |-> canonicalize_url(<<1, "">>)]]

CurationInit ==
    /\ Quiet
    /\ users = [u \in Submitters4 |-> NewUserRow(0)]
    /\ chip_ledger = SignupLedgers(NumPickers + 1)
    /\ cycles = [c \in 1..2 |-> [status |-> "OPEN", closed_at |-> NULL]]
    /\ candidate_links = CurationCandidates
    /\ picks = <<>>
    /\ \E clicks \in [1..(NumPickers + 4) -> 0..MaxFingerprints] :
          click_events =
              {[candidate_id |-> i, fingerprint_hash |-> f] :
                  i \in 1..(NumPickers + 4), f \in 1..MaxFingerprints}
              \ {e \in [candidate_id : 1..(NumPickers + 4),
                        fingerprint_hash : 1..MaxFingerprints] :
                    e.fingerprint_hash > clicks[e.candidate_id]}

CurationNext == \E c \in 1..2 : ComputeCurationRewardRows(c)

SpecCuration == CurationInit /\ [][CurationNext]_vars

\* Clicks on two candidates of two submitters, from known and unknown
\* clickers, on known and unknown candidates.
ClicksInit ==
    /\ Quiet
    /\ users = [u \in 1..2 |-> NewUserRow(0)]
    /\ chip_ledger = SignupLedgers(2)
    /\ cycles = [c \in {1} |-> [status |-> "OPEN", closed_at |-> NULL]]
    /\ candidate_links =
          [i \in 1..2 |-> [cycle_id |-> 1, submitted_by_user_id |-> i,
                           canonical_url |-> canonicalize_url(<<i, "">>)]]
    /\ picks = <<>>
    /\ click_events = {}

ClicksNext ==
    \E candidate_id \in 1..3, fingerprint \in Fingerprints,
       clicked_by_user_id \in {NULL} \cup 1..3 :
        RecordClick(candidate_id, fingerprint, clicked_by_user_id)

SpecClicks == ClicksInit /\ [][ClicksNext]_vars

\* A settled cycle whose two submitters collect clicks while reward calls of
\* the three layers arrive, forced or not, complete or failing part-way.
AwardInit ==
    /\ Quiet
    /\ users = [u \in 1..2 |-> NewUserRow(0)]
    /\ chip_ledger = SignupLedgers(2)
    /\ cycles = [c \in {1} |-> SettledRow(0)]
    /\ candidate_links =
          [i \in 1..2 |-> [cycle_id |-> 1, submitted_by_user_id |-> i,
                           canonical_url |-> canonicalize_url(<<i, "">>)]]
    /\ picks = <<>>
    /\ click_events = {}

AwardNext ==
    \/ TickHour
    \/ \E candidate_id \in 1..2 : RecordClick(candidate_id, 1, NULL)
    \/ \E done \in 0..2 : ApplyCurationRewards(1, done)
    \/ \E force \in BOOLEAN, done \in 0..2 :
            MarketApplyCurationRewards(1, 1, force, done)
    \/ \E p \in Callers, c \in {1, NULL}, force \in BOOLEAN :
            RunCurationRewards(p, c, force, 1)
    \/ \E p \in Callers : CurationClaim(p)
    \/ \E p \in Callers, done \in 0..2 : CurationBody(p, done)

SpecAward == AwardInit /\ [][AwardNext]_vars

\* _normalize_probabilities on every raw output over one or more candidates.
NormalizeNext ==
    \E n \in 1..MaxCands, probs \in RawOutputs :
        NormalizeProbabilities(probs, [i \in 1..n |-> i])

SpecNormalize == ClicksInit /\ [][NormalizeNext]_vars

\* Callers, each its own connection, asking for the users of two models on
\* one day or the next.
AiUsersNext ==
    \/ \E p \in Callers, model_id \in ModelIds : AiUserSelect(p, model_id)
    \/ \E p \in Callers : AiUserCreate(p)
    \/ TickDay

SpecAiUsers == ClicksInit /\ [][AiUsersNext]_vars

\* A runner with a config for model alpha, alone or before or after a
\* config for model beta, whose strategy is the well-behaved one.
AlphaConfigs ==
    [id : {"alpha"}, enabled : {TRUE}, max_daily_picks : {0 - 1, 1, MaxCands}]
    \cup [id : {"alpha"}, enabled : {FALSE}, max_daily_picks : {1}]

BetaConfig == [id |-> "beta", enabled |-> TRUE, max_daily_picks |-> 1]

BetaOut == [probs |-> <<>>, explain |-> [selected |-> "why", unselected |-> "no"]]

\* Scores under the candidates' ids: the first candidate scores 1, the
\* others anything, a missing or negative score included.
RunOutputs ==
    {probs \in RawOutputs :
        /\ DOMAIN probs \subseteq 1..MaxCands
        /\ 1 \in DOMAIN probs /\ probs[1] = 1}

Behaviours ==
    {[selected |-> " ", unselected |-> "no"], [selected |-> "why", unselected |-> "no"],
     [selected |-> "why", unselected |-> ""]}

RunsNext ==
    \/ \E config \in AlphaConfigs, probs \in RunOutputs, explain \in Behaviours :
          \/ RunCycle(1, <<config>>, <<[probs |-> probs, explain |-> explain]>>)
          \/ RunCycle(1, <<BetaConfig, config>>,
                      <<BetaOut, [probs |-> probs, explain |-> explain]>>)
          \/ RunCycle(1, <<config, BetaConfig>>,
                      <<[probs |-> probs, explain |-> explain], BetaOut>>)
    \/ \E config \in AlphaConfigs : RunCycle(2, <<config>>, <<BetaOut>>)

SpecRuns == ClicksInit /\ [][RunsNext]_vars

\* Every operation that writes chips, on a market of one user with a pick:
\* a direct credit, the faucet job, a settlement,
\* clicks and curation rewards, new users, a model run.
LedgerInit ==
    /\ Quiet
    /\ users = [u \in {1} |-> NewUserRow(0)]
    /\ chip_ledger = SignupLedgers(1)
    /\ cycles = [c \in {1} |-> [status |-> "OPEN", closed_at |-> NULL]]
    /\ candidate_links =
          [i \in 1..2 |-> [cycle_id |-> 1, submitted_by_user_id |-> 1,
                           canonical_url |-> canonicalize_url(<<i, "">>)]]
    /\ picks = <<[cycle_id |-> 1, user_id |-> 1, ids |-> <<1>>]>>
    /\ click_events = {}

LedgerNext ==
    \/ TickDay
    \/ CreateUser(NULL)
    \/ CreditUserChips(1, 5)
    \/ RunDailyFaucet(1, NULL, FALSE)
    \/ FaucetBody(1)
    \/ SettleCallsStarted = 0 /\ SettleCycle(1, {<<1, "">>})
    \/ RecordClick(1, 1, NULL)
    \/ \E done \in 0..1 : ApplyCurationRewards(1, done)
    \/ RunCycle(1, <<BetaConfig>>, <<BetaOut>>)

SpecLedger == LedgerInit /\ [][LedgerNext]_vars

\* The faucet: users are created with a date, and the faucet is applied for
\* days in any order.
FaucetDays == 0..(MaxDay + 2)

FaucetNext ==
    \/ \E d \in FaucetDays : CreateUser(d)
    \/ \E d \in FaucetDays : ApplyDailyFaucet(d)

SpecFaucet == Init /\ [][FaucetNext]_vars

\* Calls with ids of cycles and users that do not exist: the market has
\* cycle 1 and users 1 and 2.
UnknownIdsNext ==
    \/ \E c \in 1..2, w \in {{}, {<<1, "">>}} :
            SettleCallsStarted = 0 /\ SettleCycle(c, w)
    \/ \E c \in 1..2, u \in 1..3, ids \in {<<>>, <<1>>, <<2, 1>>} :
            SetRankedPicks(c, u, ids)
    \/ \E c \in 1..2 : ComputeMarketProbabilities(c)

SpecUnknownIds == ClicksInit /\ [][UnknownIdsNext]_vars

\* ------------------------------------------------- claims on the ranking
\* The reward table of the claims: 20 for rank 1, two less per rank, 2 for
\* rank 10.
RewardTable(rank) ==
    CASE rank = 1 -> 20 [] rank = 2 -> 18 [] rank = 3 -> 16 [] rank = 4 -> 14
      [] rank = 5 -> 12 [] rank = 6 -> 10 [] rank = 7 -> 8 [] rank = 8 -> 6
      [] rank = 9 -> 4 [] rank = 10 -> 2

\* The sum of the table rewards of the positions from r on of `ids` that hold
\* a winner.
RECURSIVE RewardFrom(_, _, _)
RewardFrom(ids, winners, r) ==
    IF r > Len(ids) THEN 0
    ELSE (IF ids[r] \in winners THEN RewardTable(r) ELSE 0)
         + RewardFrom(ids, winners, r + 1)

\* The reward the stored picks of a user in a cycle earn with `winners`.
EarnedReward(cycle_id, user_id, winners) ==
    LET own == {i \in 1..Len(picks) :
                    picks[i].cycle_id = cycle_id /\ picks[i].user_id = user_id}
    IN  IF own = {} THEN 0
        ELSE RewardFrom(picks[CHOOSE i \in own : TRUE].ids, winners, 1)

SettleReturns(cycle_id) ==
    settle_hist'[cycle_id].started = settle_hist[cycle_id].started + 1

\* C11: a settle_cycle call on an OPEN cycle raises every user's balance by
\* exactly the sum of the table rewards of the ranks of the user's picks whose
\* candidate is a winner, and reports that sum as the user's reward_chips.
C11_BalanceGrowsByRankRewards ==
    [][\A c \in DOMAIN cycles :
          (SettleReturns(c) /\ cycles[c].status = "OPEN") =>
              LET winners == SeqRange(settle_returned'.winner_candidate_ids)
                  ranking == settle_returned'.ranking
              IN  /\ \A u \in DOMAIN users :
                        users'[u].current_chips =
                            users[u].current_chips + EarnedReward(c, u, winners)
                  /\ \A i \in 1..Len(ranking) :
                        ranking[i].reward_chips =
                            EarnedReward(c, ranking[i].user_id, winners)]_vars

\* A user who picked MAX_PICKS_PER_CYCLE candidates that all won holds the
\* starting chips plus the whole table (110), another one whose two picks both
\* won holds 38 more than the starting chips, and the ranking reports both.
C11_WholeTableEarned ==
    /\ settle_returned.cycle_id = 1
    /\ \E u, v \in DOMAIN users, i, j \in 1..Len(settle_returned.ranking) :
          /\ users[u].current_chips = STARTING_CHIPS + 110
          /\ settle_returned.ranking[i].user_id = u
          /\ settle_returned.ranking[i].reward_chips = 110
          /\ users[v].current_chips = STARTING_CHIPS + 38
          /\ settle_returned.ranking[j].user_id = v

\* The (reward_chips, correct_count) pair of a is greater than that of b.
PairGreater(a, b) ==
    \/ a.reward_chips > b.reward_chips
    \/ a.reward_chips = b.reward_chips /\ a.correct_count > b.correct_count

SamePair(a, b) ==
    a.reward_chips = b.reward_chips /\ a.correct_count = b.correct_count

\* C12: the ranking settle_cycle returns is sorted descending by
\* (reward_chips, correct_count), and the rank of an entry is the 1-based
\* position of the first entry with the same pair: tied users share a rank and
\* the ranks after them are not renumbered.
C12_CompetitionRanking ==
    LET ranking == settle_returned.ranking
    IN  /\ \A i, j \in 1..Len(ranking) :
              i < j => ~PairGreater(ranking[j], ranking[i])
        /\ \A i \in 1..Len(ranking) :
              /\ ranking[i].rank \in 1..i
              /\ SamePair(ranking[ranking[i].rank], ranking[i])
              /\ \A j \in 1..(ranking[i].rank - 1) :
                    ~SamePair(ranking[j], ranking[i])

\* Two users tie at the top and a third one follows: ranks 1, 1, 3.
C12_TieThenGap ==
    LET ranking == settle_returned.ranking
    IN  /\ Len(ranking) = 3
        /\ ranking[1].rank = 1
        /\ ranking[2].rank = 1
        /\ ranking[3].rank = 3
        /\ ranking[1].reward_chips = 20
        /\ ranking[3].reward_chips = 18

\* The canonical forms of the winner URLs of the last settle_cycle call.
WinnersAsked ==
    {WithoutTracking(url) : url \in settle_returned.winner_urls}

\* The candidates that should have won the last settle_cycle call.
WinnersExpected ==
    {i \in CandidateIds :
        /\ candidate_links[i].cycle_id = settle_returned.cycle_id
        /\ candidate_links[i].canonical_url \in WinnersAsked}

\* C13: the winners of settle_cycle(cycle_id, winner_urls) are exactly the
\* candidates of that cycle whose canonical URL is the canonical form of a
\* winner URL, each once; winner URLs that match no candidate of the cycle are
\* dropped, and no candidate of another cycle wins.  The result rows of the
\* cycle mark the same candidates.
C13_WinnersAreMatchingCandidates ==
    settle_returned.cycle_id # NULL =>
        /\ SeqRange(settle_returned.winner_candidate_ids) = WinnersExpected
        /\ IsInjective(settle_returned.winner_candidate_ids)
        /\ {r.candidate_id : r \in {x \in ResultsOf(settle_returned.cycle_id) :
                                        x.is_winner = 1}} = WinnersExpected

\* The first cycle was settled with three URLs, two of them forms of the URL
\* that the second cycle's candidate has too: two winners, both of the first
\* cycle.
C13_TrackingAndOtherCycle ==
    /\ settle_returned.cycle_id = 1
    /\ Cardinality(settle_returned.winner_urls) = 3
    /\ settle_returned.winner_candidate_ids \in {<<1, 2>>, <<2, 1>>}
    /\ candidate_links[OtherCycleCand].canonical_url = candidate_links[1].canonical_url

\* ------------------------------------------------- claims on the picks
\* The rows of picks of (cycle, user), as list_picks returns them.
StoredPickRows(cycle_id, user_id) ==
    SelectSeq(list_picks(cycle_id), LAMBDA row : row.user_id = user_id)

\* The candidate ids of the stored picks of (cycle, user), by ascending rank.
RECURSIVE IdsByRank(_, _)
IdsByRank(rows, rank) ==
    LET at == {i \in 1..Len(rows) : rows[i].rank = rank}
    IN  IF at = {} THEN <<>>
        ELSE <<rows[CHOOSE i \in at : TRUE].candidate_id>> \o IdsByRank(rows, rank + 1)

\* C15: for every (cycle, user) the stored picks are at most 10, on pairwise
\* distinct candidates of that cycle, with ranks exactly 1..n, the pick of rank
\* i being the i-th id of the last set_ranked_picks call that succeeded for
\* that cycle and user.
C15_PicksWellFormed ==
    \A c \in DOMAIN cycles, u \in DOMAIN users :
        LET rows == StoredPickRows(c, u)
            n == Len(rows)
        IN  /\ n <= 10
            /\ \A i, j \in 1..n :
                  (rows[i].candidate_id = rows[j].candidate_id
                   \/ rows[i].rank = rows[j].rank) => i = j
            /\ \A i \in 1..n :
                  /\ rows[i].candidate_id \in CandidateIds
                  /\ candidate_links[rows[i].candidate_id].cycle_id = c
                  /\ rows[i].rank \in 1..n
                  /\ rows[i].rank <= Len(LastPicks(c, u))
                  /\ rows[i].candidate_id = LastPicks(c, u)[rows[i].rank]
            /\ n = Len(LastPicks(c, u))

\* A user has ten picks stored, ranked 1 to 10, after a list of eleven was
\* rejected.
C15_TenPicksStored ==
    /\ picks_hist.rejected.ids = Prefix(NumFirstCycleCands)
    /\ \E u \in DOMAIN users :
          /\ Len(StoredPickRows(1, u)) = MAX_PICKS_PER_CYCLE
          /\ IdsByRank(StoredPickRows(1, u), 1) = Prefix(MAX_PICKS_PER_CYCLE)

\* C16: the picks of a (cycle, user) only ever change as a whole: a step
\* either leaves them as they are, or is the commit of one set_ranked_picks
\* call for that cycle and user and leaves exactly the list of that call, ranked
\* in its order.  A call that fails leaves the previous list.
C16_PicksReplacedAtomically ==
    [][\A c \in DOMAIN cycles, u \in DOMAIN users :
          \/ StoredPickRows(c, u)' = StoredPickRows(c, u)
          \/ /\ picks_hist'.succeeded = picks_hist.succeeded + 1
             /\ \E p \in Callers :
                  /\ picks_calls[p].pc = "write"
                  /\ picks_calls'[p].pc = "idle"
                  /\ picks_calls[p].cycle_id = c
                  /\ picks_calls[p].user_id = u
                  /\ IdsByRank(StoredPickRows(c, u)', 1) = picks_calls[p].ids
                  /\ Len(StoredPickRows(c, u)') = Len(picks_calls[p].ids)]_vars

\* Of two calls that ran beside each other for one user, one has failed and
\* one has committed, and a third call with another list is in its transaction
\* while the committed list is stored.
C16_RaceAndFailure ==
    \E p \in Callers :
        /\ picks_calls[p].pc = "write"
        /\ picks_hist.failed > 0
        /\ picks_hist.succeeded > 0
        /\ StoredPickRows(picks_calls[p].cycle_id, picks_calls[p].user_id) # <<>>
        /\ IdsByRank(StoredPickRows(picks_calls[p].cycle_id,
                                    picks_calls[p].user_id), 1)
                # picks_calls[p].ids
        /\ Len(picks_calls[p].ids) > 1

\* The tables of the market.
Tables ==
    <<users, chip_ledger, cycles, candidate_links, picks, cycle_results,
      click_events, curation_rewards, job_runs>>

\* C17: a set_ranked_picks call raises when its list has more than 10 ids, a
\* duplicate id or an id that is not a candidate of the cycle, and a call that
\* raises so changes no table: the picks stored before are still stored.
C17_RejectedPicksChangeNothing ==
    [][/\ picks_hist'.raised > picks_hist.raised => Tables' = Tables
       /\ \A p \in Callers :
            (picks_calls[p].pc = "idle" /\ picks_calls'[p].pc = "write") =>
                LET ids == picks_calls'[p].ids
                IN  /\ Len(ids) <= 10
                    /\ \A i, j \in 1..Len(ids) : ids[i] = ids[j] => i = j
                    /\ \A i \in 1..Len(ids) :
                          /\ ids[i] \in CandidateIds
                          /\ candidate_links[ids[i]].cycle_id
                                = picks_calls'[p].cycle_id]_vars

\* A list with a candidate of the other cycle was rejected while picks were
\* stored, after two other calls were rejected.
C17_RejectedWithPicksStored ==
    /\ picks_hist.raised >= 2
    /\ picks_hist.rejected = [cycle_id |-> 1, ids |-> <<1, OtherCycleCand>>]
    /\ \E u \in DOMAIN users : StoredPickRows(1, u) # <<>>

\* ------------------------------------------------- claims on the probabilities
\* The weight of a rank in the claims: 10 for rank 1 down to 1 for rank 10.
ClaimedWeight(rank) == 11 - rank

\* The sum of a sequence of numbers.
RECURSIVE SumSeq(_)
SumSeq(numbers) ==
    IF numbers = <<>> THEN 0 ELSE Head(numbers) + SumSeq(Tail(numbers))

\* The summed weight of the picks in rows on one candidate.
PickedWeight(rows, candidate_id) ==
    SumSeq([i \in 1..Len(rows) |->
              IF rows[i].candidate_id = candidate_id
              THEN ClaimedWeight(rows[i].rank) ELSE 0])

\* The total weight of the picks in rows.
PickedTotal(rows) ==
    SumSeq([i \in 1..Len(rows) |-> ClaimedWeight(rows[i].rank)])

\* C18: a compute_market_probabilities call gives every candidate the summed
\* rank weight of the picks on it (10 for rank 1 down to 1 for rank 10)
\* divided by the total weight of the picks of the cycle; the probabilities sum
\* to 1 when the total is positive and are all 0 when the cycle has no picks.
C18_ProbabilityIsWeightShare ==
    [][prob_returned' # prob_returned =>
        \E rows \in {list_picks(prob_returned'.cycle_id)} :
        \E total \in {PickedTotal(rows)} :
            LET out == prob_returned'.output
            IN  /\ \A i \in 1..Len(out) :
                    LET prob == out[i].market_probability
                        weight == PickedWeight(rows, out[i].candidate_id)
                    IN  /\ prob.den > 0
                        /\ total > 0 => prob.num * total = weight * prob.den
                        /\ total = 0 => prob.num = 0
                /\ total > 0 =>
                      /\ Len(out) > 0
                      /\ \A i \in 1..Len(out) :
                            out[i].market_probability.den
                                = out[1].market_probability.den
                      /\ SumSeq([i \in 1..Len(out) |->
                                    out[i].market_probability.num])
                            = out[1].market_probability.den
                /\ rows = <<>> <=> total = 0]_vars

\* A call returned probabilities 19/74, 19/74 and smaller ones for a cycle
\* with two users' picks, and a call for a cycle without picks returned zeros.
C18_SharesReturned ==
    /\ prob_returned.cycle_id = 1
    /\ Len(prob_returned.output) = NumFirstCycleCands
    /\ prob_returned.output[1].market_probability = [num |-> 19, den |-> 74]
    /\ prob_returned.output[2].market_probability = [num |-> 19, den |-> 74]
    /\ prob_returned.output[NumFirstCycleCands].market_probability.num = 0

\* C19: a compute_market_probabilities call returns one entry for every
\* candidate of the cycle, those without picks included with probability 0,
\* ordered by probability descending, candidates of equal probability in the
\* order of their creation, and changes no table, for an OPEN and for a
\* SETTLED cycle.
C19_FullSortedAndPure ==
    [][prob_returned' # prob_returned =>
        \E rows \in {list_picks(prob_returned'.cycle_id)} :
        LET c == prob_returned'.cycle_id
            out == prob_returned'.output
        IN  /\ Tables' = Tables
            /\ {out[i].candidate_id : i \in 1..Len(out)} = CandidatesOf(c)
            /\ Len(out) = Cardinality(CandidatesOf(c))
            /\ \A i \in 1..Len(out) :
                  PickedWeight(rows, out[i].candidate_id) = 0
                    => out[i].market_probability.num = 0
            /\ \A i, j \in 1..Len(out) :
                  i < j =>
                    LET a == out[i].market_probability
                        b == out[j].market_probability
                    IN  \/ a.num * b.den > b.num * a.den
                        \/ /\ a.num * b.den = b.num * a.den
                           /\ out[i].candidate_id < out[j].candidate_id]_vars

\* A call on a SETTLED cycle returned two candidates of equal positive
\* probability before nine of lower or no probability.
C19_TiesOnSettledCycle ==
    /\ prob_returned.cycle_id = 1
    /\ prob_returned.status = "SETTLED"
    /\ Len(prob_returned.output) = NumFirstCycleCands
    /\ prob_returned.output[1].market_probability.num > 0
    /\ prob_returned.output[1].market_probability
          = prob_returned.output[2].market_probability
    /\ prob_returned.output[NumFirstCycleCands].market_probability.num = 0

\* ------------------------------------------------- claims on the curation rows
\* The reward table of the claims.
ClaimedCurationReward(position) ==
    IF position = 1 THEN 40 ELSE IF position = 2 THEN 20
    ELSE IF position = 3 THEN 10 ELSE 0

\* pool / n rounded to the nearest integer, a half to the even neighbour.
ClaimedRound(pool, n) ==
    LET Dist(r) == IF pool >= n * r THEN pool - n * r ELSE n * r - pool
    IN  CHOOSE r \in 0..pool : \A s \in 0..pool :
            \/ Dist(r) < Dist(s)
            \/ Dist(r) = Dist(s) /\ (r = s \/ r % 2 = 0)

\* The click count of a submitter of the cycle.
ClicksOf(cycle_id, user_id) ==
    Cardinality({e \in click_events :
        /\ candidate_links[e.candidate_id].cycle_id = cycle_id
        /\ candidate_links[e.candidate_id].submitted_by_user_id = user_id})

\* The row the claim gives a submitter with clicks, its tie group starting at
\* position p and having n members.
ClaimedCurationRow(cycle_id, user_id) ==
    LET count == ClicksOf(cycle_id, user_id)
        p == 1 + Cardinality({v \in DOMAIN users : ClicksOf(cycle_id, v) > count})
        n == Cardinality({v \in DOMAIN users : ClicksOf(cycle_id, v) = count})
        pool == SumSeq([q \in 1..n |-> ClaimedCurationReward(p + q - 1)])
    IN  [user_id |-> user_id, rank |-> p, unique_clicks |-> count,
         reward_chips |-> ClaimedRound(pool, n)]

\* C20: compute_curation_reward_rows returns, in descending order of click
\* count, one row for every submitter with at least one click whose tie group
\* starts at a position p <= 3: its rank is p and its reward is the table
\* rewards of the positions p..p+n-1 that are <= 3 (table 40, 20, 10), summed,
\* divided by the n members of the group and rounded; the next group starts at
\* p+n, and a group that starts beyond position 3 has no row.
C20_TieGroupsShareRewards ==
    [][curation_returned' # curation_returned =>
        LET c == curation_returned'.cycle_id
            rows == curation_returned'.rows
            rewarded == {u \in DOMAIN users :
                            /\ ClicksOf(c, u) > 0
                            /\ ClaimedCurationRow(c, u).rank <= 3}
        IN  /\ {rows[i] : i \in 1..Len(rows)}
                  = {ClaimedCurationRow(c, u) : u \in rewarded}
            /\ Len(rows) = Cardinality(rewarded)
            /\ \A i, j \in 1..Len(rows) :
                  i < j => rows[i].unique_clicks >= rows[j].unique_clicks]_vars

\* Two submitters tied on the most clicks got rank 1 and 30 chips each, the
\* third got rank 3 and 10 chips, and a fourth with fewer clicks got no row.
C20_TwoTiedThenThird ==
    /\ curation_returned.cycle_id = 1
    /\ Len(curation_returned.rows) = 3
    /\ curation_returned.rows[1].rank = 1
    /\ curation_returned.rows[1].reward_chips = 30
    /\ curation_returned.rows[2].rank = 1
    /\ curation_returned.rows[2].reward_chips = 30
    /\ curation_returned.rows[3].rank = 3
    /\ curation_returned.rows[3].reward_chips = 10
    /\ Cardinality({u \in DOMAIN users : ClicksOf(1, u) > 0}) = 4

\* ------------------------------------------------- claims on the clicks
\* The fingerprints recorded for a candidate.
FingerprintsOf(candidate_id) ==
    {e.fingerprint_hash : e \in {x \in click_events : x.candidate_id = candidate_id}}

RECURSIVE FaucetCreditSum(_, _)
FaucetCreditSum(user_id, n) ==
    IF n = 0 THEN 0
    ELSE (IF /\ chip_ledger[n].user_id = user_id
             /\ chip_ledger[n].event_type = "daily_faucet"
          THEN chip_ledger[n].chips_delta ELSE 0)
         + FaucetCreditSum(user_id, n - 1)

\* The days between the creation date of a user and the latest date the
\* faucet was applied for, 0 when there is none after the creation date.
DaysOwed(user_id) ==
    LET h == faucet_hist[user_id]
        later == {d \in h.applied : d > h.created}
    IN  IF later = {} THEN 0
        ELSE (CHOOSE d \in later : \A e \in later : e <= d) - h.created

\* C30: after any sequence of faucet applications the faucet credits of a
\* user sum to DAILY_CHIPS times the days from the user's creation date to the
\* latest date applied (0 when that is not later), an application for date d
\* credits DAILY_CHIPS times the days since last_daily_credit_date when that
\* is positive and then sets the date to d, and the date never moves back.
C30_FaucetAccumulates ==
    /\ [](\A u \in DOMAIN faucet_hist :
            /\ FaucetCreditSum(u, Len(chip_ledger)) = 10 * DaysOwed(u)
            /\ users[u].last_daily_credit_date
                  = faucet_hist[u].created + DaysOwed(u))
    /\ [][\A u \in DOMAIN users :
            /\ users'[u].last_daily_credit_date >= users[u].last_daily_credit_date
            /\ users'[u].current_chips - users[u].current_chips
                  = 10 * (users'[u].last_daily_credit_date
                            - users[u].last_daily_credit_date)]_vars

\* A user created on day 1 was skipped by the faucet of day 0, got 20 chips
\* for the faucet of day 3, and nothing more for the later faucet of day 2.
C30_MissedDaysThenEarlierDate ==
    \E u \in DOMAIN faucet_hist :
        /\ faucet_hist[u].created = 1
        /\ faucet_hist[u].applied = {0, 2, 3}
        /\ users[u].current_chips = STARTING_CHIPS + 20
        /\ users[u].last_daily_credit_date = 3
        /\ chip_ledger[Len(chip_ledger)].user_id = u
        /\ chip_ledger[Len(chip_ledger)].chips_delta = 20

\* ------------------------------------------------- claims on unknown ids
\* C27: no settle_cycle, set_ranked_picks or compute_market_probabilities call
\* returns a normal result for a cycle id or a user id that does not exist.
C27_UnknownIdNeverReturns ==
    /\ settle_returned.cycle_id # NULL => settle_returned.cycle_id \in DOMAIN cycles
    /\ prob_returned.cycle_id # NULL => prob_returned.cycle_id \in DOMAIN cycles
    /\ \A key \in DOMAIN picks_hist.last :
          key[1] \in DOMAIN cycles /\ key[2] \in DOMAIN users

\* ------------------------------------------------- claims on the job runs
ClaimsReturned(jk) == Hist(claim_returns, jk, NoReturns)

BodiesRun(id) == Hist(body_runs, id, NoRuns)

Outcomes(id) == Hist(job_outcomes, id, NoOutcomes)

\* C1: whatever the interleaving of the callers that claim (j, k), starting
\* with no marker for it, exactly one claim has returned true, every other one
\* false, and job_runs holds exactly one marker for (j, k).
C1_ExactlyOneWinner ==
    \A jk \in DOMAIN claim_returns :
        /\ ClaimsReturned(jk).true = 1
        /\ Cardinality(Markers(job_runs, jk[1], jk[2])) = 1

\* Two callers raced on one key: the winner is still in its job body when the
\* other's claim has already been refused.
C1_RaceOnOneKey ==
    \E p \in Callers :
        /\ job_calls[p].pc = "body"
        /\ ~job_calls[p].force
        /\ ClaimsReturned(job_calls[p].id).false > 0

\* C2: once claim_job_run(j, k) has returned true, no step makes it return
\* true again or removes or changes the marker (rows of job_runs are only ever
\* appended), and in every state a claim for a pair is refused exactly when
\* that very pair has a marker.
C2_MarkerNeverReleased ==
    [][ /\ SubSeq(job_runs', 1, Len(job_runs)) = job_runs
        /\ \A jk \in JobKeys :
              /\ ClaimsReturned(jk).true > 0 =>
                    /\ ClaimsReturned(jk)'.true = ClaimsReturned(jk).true
                    /\ ~claim_job_run(job_runs', jk[1], jk[2]).ok
              /\ claim_job_run(job_runs, jk[1], jk[2]).ok
                    <=> (Markers(job_runs, jk[1], jk[2]) = {}) ]_vars

\* A marker survived a job body that raised or a forced run for its key, and
\* a later claim for it was refused.
C2_RefusedAfterRaiseAndForce ==
    \E jk \in DOMAIN claim_returns :
        /\ ClaimsReturned(jk).true = 1
        /\ ClaimsReturned(jk).false > 0
        /\ Outcomes(jk).raised > 0 \/ BodiesRun(jk).forced > 0

\* C3: after a forced run of a job for some key, no un-forced invocation of
\* that job for the same key gets past the claim.
C3_UnforcedSkippedAfterForced ==
    [][ \A id \in DOMAIN body_runs :
            BodiesRun(id).forced > 0 =>
                Outcomes(id)'.claimed = Outcomes(id).claimed ]_vars

ThreeJobs == {"daily_faucet", "model_run", "sync_assorted_links"}

\* C4: un-forced invocations run the body of the faucet at most once per
\* date, of the model run at most once per (cycle, hour) and of the sync at
\* most once per hour, and an un-forced invocation is only ever skipped when
\* an earlier one for the same date, (cycle, hour) or hour got the claim.
C4_BodyAtMostOncePerKey ==
    /\ \A id \in DOMAIN body_runs :
          id[1] \in ThreeJobs => BodiesRun(id).unforced <= 1
    /\ \A id \in DOMAIN job_outcomes :
          (id[1] \in ThreeJobs /\ Outcomes(id).skipped > 0)
              => Outcomes(id).claimed > 0

\* A job ran its body for one key, a repeat for that key was skipped, and an
\* invocation of the same job for another key ran its body too.
C4_OtherKeyNotBlocked ==
    \E id1, id2 \in DOMAIN body_runs :
        /\ id1 # id2
        /\ id1[1] = id2[1]
        /\ id1[1] \in ThreeJobs
        /\ BodiesRun(id1).unforced = 1
        /\ Outcomes(id1).skipped > 0
        /\ BodiesRun(id2).unforced = 1

\* ------------------------------------------------------------------ C21
RewardRowsOf(cycle_id, user_id) ==
    {r \in curation_rewards : r.cycle_id = cycle_id /\ r.user_id = user_id}

RewardCreditsOf(cycle_id, user_id) ==
    {i \in 1..Len(chip_ledger) :
        /\ chip_ledger[i].event_type = "curation_reward"
        /\ chip_ledger[i].cycle_id = cycle_id
        /\ chip_ledger[i].user_id = user_id}

Balances == [u \in DOMAIN users |-> users[u].current_chips]

\* C21: curation rewards are applied once ever per cycle, whatever the
\* sequence of storage, market and job calls, force flags and clicks in
\* between: a user has at most one curation_rewards row and one
\* curation_reward ledger credit per cycle, one call at most inserts rows for
\* a cycle, and once the cycle has rows no call changes a row, a credit or a
\* balance.
C21_CurationAwardedOnce ==
    /\ [](\A c \in DOMAIN cycles :
            /\ Hist(award_hist.awarding, c, 0) <= 1
            /\ \A u \in DOMAIN users :
                  /\ Cardinality(RewardRowsOf(c, u)) <= 1
                  /\ Cardinality(RewardCreditsOf(c, u))
                        = Cardinality(RewardRowsOf(c, u)))
    /\ [][\A c \in DOMAIN cycles :
            (\E r \in curation_rewards : r.cycle_id = c)
                => /\ curation_rewards' = curation_rewards
                   /\ chip_ledger' = chip_ledger
                   /\ Balances' = Balances]_vars

\* A call returned no rows for a cycle that an earlier call had awarded, after
\* a later click.
C21_SecondCallAfterAward ==
    /\ 1 \in award_hist.empty_after
    /\ \E r \in curation_rewards : r.cycle_id = 1 /\ r.reward_chips > 0
    /\ \E u \in 1..2 : Cardinality(FingerprintsOf(u)) = 1 /\ RewardRowsOf(1, u) = {}

\* ------------------------------------------------------------------ C28
OutcomesOf(id) == Hist(job_returned, id, {})

SkipsOf(id) == Hist(job_outcomes, id, NoOutcomes).skipped

RaisesOf(id) == Hist(job_outcomes, id, NoOutcomes).raised

\* A refused claim answers skipped = true with reason already_ran, and only a
\* refused claim does.
SkipIsStructured(id) ==
    /\ SkipsOf(id) > 0 <=> \E o \in OutcomesOf(id) : o.skipped = "true"
    /\ \A o \in OutcomesOf(id) : o.skipped = "true" <=> o.reason = "already_ran"

\* The step on which the claim of `id` is refused raises nothing and leaves
\* balances, ledger, picks, predictions, candidates, cycles, results,
\* rewards, clicks and job markers as they were.
SkipStepIsNoOp(id) ==
    SkipsOf(id)' > SkipsOf(id)
        => /\ RaisesOf(id)' = RaisesOf(id)
           /\ UNCHANGED <<users, chip_ledger, cycles, candidate_links, picks,
                          model_predictions, cycle_results, curation_rewards,
                          click_events, job_runs>>

\* C28 as stated: a non-forced invocation whose run key is already claimed
\* does not raise, returns skipped = true with reason already_ran and changes
\* no state, and every executed outcome has skipped = false.
C28_ExecutedHasSkippedFalse ==
    /\ [](\A id \in DOMAIN job_outcomes :
            /\ SkipIsStructured(id)
            /\ job_outcomes[id].executed > 0
                  => \E o \in OutcomesOf(id) : o.skipped = "false")
    /\ [][\A id \in DOMAIN job_outcomes' : SkipStepIsNoOp(id)]_vars

\* C28 amended: a non-forced invocation whose run key is already claimed does
\* not raise, returns skipped = true with reason already_ran and changes no
\* state; an executed outcome of the faucet, model and sync jobs has
\* skipped = false, while the executed entry of run_curation_rewards has no
\* skipped key at all (it carries the market's awarded/reason/rows), so the
\* two are told apart by skipped being true or not.
C28_SkipIsStructuredNoOp ==
    /\ [](\A id \in DOMAIN job_outcomes :
            /\ SkipIsStructured(id)
            /\ job_outcomes[id].executed > 0
                  => \E o \in OutcomesOf(id) :
                        o.skipped = (IF id[1] = "curation_rewards" THEN "absent"
                                     ELSE "false"))
    /\ [][\A id \in DOMAIN job_outcomes' : SkipStepIsNoOp(id)]_vars

\* A curation run key was executed by one invocation and refused to another.
C28_CurationExecutedThenSkipped ==
    \E id \in DOMAIN job_outcomes :
        /\ id[1] = "curation_rewards"
        /\ job_outcomes[id].executed > 0
        /\ job_outcomes[id].skipped > 0
        /\ SkippedOutcome \in OutcomesOf(id)

\* ------------------------------------------------------------------ C23
\* The sum of the fractions of a result, over the common denominator they
\* are built with.
ResultNumerators(result) == SumScores([c \in DOMAIN result |-> result[c].num])

IsDistribution(result) ==
    /\ \A c \in DOMAIN result : result[c].num >= 0 /\ result[c].den > 0
    /\ \E den \in {result[c].den : c \in DOMAIN result} :
          /\ \A c \in DOMAIN result : result[c].den = den
          /\ ResultNumerators(result) = den

\* C23: for any raw output and any non-empty candidate list the result of
\* _normalize_probabilities has exactly the candidate ids as keys, values
\* >= 0 and sum 1; a candidate missing from the raw output or with a negative
\* score gets 0.
C23_NormalizedIsDistribution ==
    norm_call.candidates # <<>> =>
        /\ DOMAIN norm_call.result = SeqRange(norm_call.candidates)
        /\ IsDistribution(norm_call.result)
        /\ \A c \in SeqRange(norm_call.candidates) :
              (c \notin DOMAIN norm_call.probs \/ norm_call.probs[c] < 0)
                  /\ (\E k \in DOMAIN norm_call.probs : norm_call.probs[k] > 0)
                  => norm_call.result[c].num = 0

\* ------------------------------------------------------------------ C26
UsersOfModel(model_id) ==
    {u \in DOMAIN user_accounts : user_accounts[u].email = AiEmail(model_id)}

SignupBonusesOf(user_id) ==
    {i \in 1..Len(chip_ledger) :
        chip_ledger[i].user_id = user_id /\ chip_ledger[i].event_type = "signup_bonus"}

\* C26: a model id has at most one backing user, of account type AI and with
\* a single signup bonus, and every call of get_or_create_ai_user, concurrent
\* ones included, returns that user: none raises, none returns another user.
C26_OneAiUserAlwaysReturned ==
    \A model_id \in ModelIds :
        /\ Cardinality(UsersOfModel(model_id)) <= 1
        /\ \A u \in UsersOfModel(model_id) :
              /\ user_accounts[u].account_type = "AI"
              /\ Cardinality(SignupBonusesOf(u)) = 1
        /\ ai_hist.returned[model_id] \subseteq UsersOfModel(model_id)
        /\ model_id \notin ai_hist.raised

\* ------------------------------------------------- claims on the model runs
ModelUserIds == 1..(MaxUsers + Cardinality(ModelIds))

PicksOfUser(cycle_id, user_id) == IdsByRank(StoredPickRows(cycle_id, user_id), 1)

PredictionsOf(cycle_id, user_id, candidate_id) ==
    {r \in model_predictions : /\ r.cycle_id = cycle_id
                                /\ r.model_user_id = user_id
                                /\ r.candidate_id = candidate_id}

PredictionsOfUser(user_id) == {r \in model_predictions : r.model_user_id = user_id}

\* The position of a candidate in the creation order of its cycle.
CreatedAt(candidates, candidate_id) ==
    CHOOSE i \in 1..Len(candidates) : candidates[i] = candidate_id

\* c goes before d: higher probability, or the same and created earlier.
GoesBefore(candidates, probabilities, c, d) ==
    \/ probabilities[c].num * probabilities[d].den
            > probabilities[d].num * probabilities[c].den
    \/ /\ probabilities[c].num * probabilities[d].den
            = probabilities[d].num * probabilities[c].den
       /\ CreatedAt(candidates, c) < CreatedAt(candidates, d)

\* K = min(config.max_daily_picks, 10, number of candidates); none when K <= 0
ClaimedK(config, candidates) ==
    LET least == IF config.max_daily_picks < 10 THEN config.max_daily_picks ELSE 10
        k == IF least < Len(candidates) THEN least ELSE Len(candidates)
    IN  IF k < 0 THEN 0 ELSE k

IsTopK(ids, candidates, probabilities, k) ==
    /\ Len(ids) = k
    /\ SeqRange(ids) \subseteq SeqRange(candidates)
    /\ \A i, j \in 1..Len(ids) :
          i < j => GoesBefore(candidates, probabilities, ids[i], ids[j])
    /\ \A c \in SeqRange(candidates) \ SeqRange(ids) :
          \A i \in 1..Len(ids) : GoesBefore(candidates, probabilities, ids[i], c)

\* C22: when the strategy of a model gives a blank explanation for
\* a selected candidate, run_cycle raises and the picks and the predictions
\* of that model are what they were before the run.
C22_FailedRunWritesNothing ==
    [][\A u \in ModelUserIds :
          (/\ run_hist'.raised
           /\ run_hist'.runs[Len(run_hist'.runs)].model_user_id = u)
              => /\ PicksOfUser(1, u)' = PicksOfUser(1, u)
                 /\ PredictionsOfUser(u)' = PredictionsOfUser(u)]_vars

C25_OnePredictionPerCandidate ==
    ~run_hist.raised =>
        \A i \in 1..Len(run_hist.runs) :
            run_hist.runs[i].config.enabled =>
                \A c \in SeqRange(list_candidates(run_hist.cycle_id)) :
                    \E row \in PredictionsOf(run_hist.cycle_id,
                                              run_hist.runs[i].model_user_id, c) :
                        /\ PredictionsOf(run_hist.cycle_id,
                                         run_hist.runs[i].model_user_id, c) = {row}
                        /\ row.probability = run_hist.runs[i].probabilities[c]
                        /\ row.explanation =
                              (IF c \in SeqRange(PicksOfUser(run_hist.cycle_id,
                                                    run_hist.runs[i].model_user_id))
                               THEN run_hist.runs[i].explain.selected
                               ELSE run_hist.runs[i].explain.unselected)

\* A model ran again on a cycle it had predictions for, and did not raise;
\* one candidate is selected, the other is not.
C25_RerunOverwrote ==
    /\ run_hist.conflict /\ ~run_hist.raised
    /\ \E i \in 1..Len(run_hist.runs) :
          /\ run_hist.runs[i].config.enabled
          /\ Len(PicksOfUser(run_hist.cycle_id, run_hist.runs[i].model_user_id)) = 1
          /\ \A c \in SeqRange(run_hist.candidates) :
                PredictionsOf(run_hist.cycle_id, run_hist.runs[i].model_user_id, c) # {}

\* ------------------------------------------------------------------ C31
EventTypes == {chip_ledger[i].event_type : i \in 1..Len(chip_ledger)}

\* C31: the chip ledger is append-only: every step of every operation leaves
\* the entries already written as they are and in place, so the ledger after
\* the step is the ledger before it followed by the new entries.
C31_LedgerAppendOnly ==
    [][/\ Len(chip_ledger') >= Len(chip_ledger)
       /\ \A i \in 1..Len(chip_ledger) : chip_ledger'[i] = chip_ledger[i]]_vars

\* Every kind of entry has been written on top of the signup bonus.
C31_EveryKindOfEntry ==
    /\ {"signup_bonus", "adjustment", "daily_faucet", "prediction_reward",
         "curation_reward"} \subseteq EventTypes
    /\ \E u \in DOMAIN user_accounts : u \in DOMAIN users

\* ------------------------------------------------------------------ C32
WinnersRecorded(cycle_id) == {r.candidate_id : r \in {x \in ResultsOf(cycle_id) : x.is_winner = 1}}

\* C32: a cycle's settlement result is written once: once a settle_cycle has
\* persisted the results of a cycle, no later step changes which candidates of
\* that cycle are recorded as winners, nor the cycle's closed_at.
C32_SettlementWrittenOnce ==
    [][\A c \in CycleIds :
          (c \in DOMAIN cycles /\ cycles[c].status = "SETTLED" /\ ResultsOf(c) # {})
          => /\ \E w \in SUBSET DOMAIN candidate_links :
                   w = WinnersRecorded(c) /\ w = WinnersRecorded(c)'
             /\ cycles'[c].closed_at = cycles[c].closed_at]_vars

\* ------------------------------------------------------------------ C33
\* C33: once a cycle is SETTLED, neither submit_candidate nor set_ranked_picks
\* (called for a human or by a model run) changes the cycle's candidate set or
\* any user's picks in it.
C33_SettledCycleIsFrozen ==
    [][\A c \in DOMAIN cycles :
          cycles[c].status = "SETTLED"
          => /\ CandidatesOf(c)' = CandidatesOf(c)
             /\ list_picks(c)' = list_picks(c)]_vars

\* ------------------------------------------------------------------ C34
\* The rows of the tie group recorded at a position.
GroupRows(position) ==
    {i \in 1..Len(curation_returned.rows) : curation_returned.rows[i].rank = position}

GroupSize(position) == Cardinality(GroupRows(position))

\* The pool of the group: the table rewards of the positions it occupies.
GroupPool(position) ==
    SumSeq([q \in 1..GroupSize(position) |-> ClaimedCurationReward(position + q - 1)])

\* The chips recorded for the members of the group, together.
GroupTotal(position) ==
    LET RECURSIVE Total(_)
        Total(S) == IF S = {} THEN 0
                    ELSE LET i == CHOOSE x \in S : TRUE
                         IN  curation_returned.rows[i].reward_chips + Total(S \ {i})
    IN  Total(GroupRows(position))

GroupDrift(position) ==
    IF GroupTotal(position) >= GroupPool(position)
    THEN GroupTotal(position) - GroupPool(position)
    ELSE GroupPool(position) - GroupTotal(position)

\* C34 as stated: the total recorded for a tie group differs from its pool
\* by at most one chip.
C34_DriftAtMostOneChip ==
    \A p \in 1..3 : GroupRows(p) # {} => GroupDrift(p) <= 1

\* C34: for every tie group of n submitters sharing a pool P, the total
\* recorded for the group, n * round(P / n), differs from P by at most n / 2
\* chips: every member's share is off by at most half a chip.
C34_DriftAtMostHalfPerMember ==
    \A p \in 1..3 : GroupRows(p) # {} => 2 * GroupDrift(p) <= GroupSize(p)

\* Four submitters tied on the most clicks share the pool of 70: 18 chips
\* each, 72 together.
C34_FourTiedGainTwo ==
    /\ GroupSize(1) = 4
    /\ GroupPool(1) = 70
    /\ GroupTotal(1) = 72

\* ------------------------------------------------------------------ C35
\* The users the cycle's curation rewards are recorded for.
RewardedUsers(cycle_id) == {r.user_id : r \in {x \in curation_rewards : x.cycle_id = cycle_id}}

\* The users compute_curation_reward_rows finds eligible.
EligibleUsers(cycle_id) ==
    {row.user_id : row \in SeqRange(compute_curation_reward_rows(cycle_id))}

\* C35: applying curation rewards is all-or-nothing: a step that leaves a
\* cycle with curation_rewards rows leaves it with a row for every eligible
\* user, so after a failure has_curation_rewards is false and a retry awards
\* everyone; and in every state each curation_rewards row has exactly one
\* curation_reward ledger credit of the same user, cycle and amount.
C35_AwardAllOrNothing ==
    /\ [][\A c \in DOMAIN cycles :
            \A eligible \in SUBSET DOMAIN users :
               (~has_curation_rewards(c) /\ eligible = EligibleUsers(c))
               => \E rewarded \in {{}, eligible} : rewarded = RewardedUsers(c)']_vars
    /\ [](\A r \in curation_rewards :
            /\ Cardinality(RewardCreditsOf(r.cycle_id, r.user_id)) = 1
            /\ \A i \in RewardCreditsOf(r.cycle_id, r.user_id) :
                  chip_ledger[i].chips_delta = r.reward_chips)

\* ------------------------------------------------------------------ C36
\* An earlier run_curation_rewards returned without awarding because the
\* cycle was not SETTLED or was inside the wait window.
WasDeferred(cycle_id) ==
    \E outcome \in OutcomesOf(CurationId(cycle_id)) :
        outcome.reason \in {"cycle_not_settled", "wait_window"}

\* An un-forced award with this wait would now go through: the cycle is
\* SETTLED, the window has passed, submitters have clicks, nothing is awarded.
RipeForAward(cycle_id, min_age_hours) ==
    /\ MarketAwards(cycle_id, min_age_hours, FALSE)
    /\ ~has_curation_rewards(cycle_id)
    /\ compute_curation_reward_rows(cycle_id) # <<>>

\* C36: when run_curation_rewards(force = false) returned cycle_not_settled or
\* wait_window for a cycle, a later run_curation_rewards(force = false) made
\* once the cycle is SETTLED, the window has passed and there are clicks goes
\* on to apply the rewards and is not skipped as already_ran.
C36_DeferredRunIsRetried ==
    [][\A p \in Callers :
          LET call == job_calls[p]
          IN  (/\ call.pc = "claim" /\ ~call.force
               /\ job_calls'[p] # call
               /\ WasDeferred(Head(call.targets))
               /\ RipeForAward(Head(call.targets), call.min_age_hours))
              => job_calls'[p].pc = "body"]_vars

\* ------------------------------------------------------------------ C37
\* The daily faucet job on a storage whose claims can fail.
ClaimFaultsNext ==
    \/ TickDay
    \/ \E p \in Callers, d \in Days \cup {NULL} : RunDailyFaucet(p, d, FALSE)
    \/ \E p \in Callers, d \in Days \cup {NULL} : RunDailyFaucetClaimFails(p, d)
    \/ \E p \in Callers : FaucetBody(p)

SpecClaimFaults == JobsInit /\ [][ClaimFaultsNext]_vars

FalseReturns(key) == Hist(claim_returns, key, NoReturns).false

\* C37: claim_job_run(j, k) returns false only if a marker for (j, k) already
\* exists: when none exists and the insert fails for another reason, the call
\* does not report false.
C37_FalseOnlyIfMarkerExists ==
    [][\A job_name \in {"daily_faucet"}, d \in Days :
          \E before \in 0..MaxInvocations :
             /\ before = FalseReturns(<<job_name, FaucetKey(d)>>)
             /\ FalseReturns(<<job_name, FaucetKey(d)>>)' > before
                   => Markers(job_runs, job_name, FaucetKey(d)) # {}]_vars

\* ------------------------------------------------------------------ C38
\* Direct market award calls on a cycle that starts OPEN and is settled once.
MarketAwardInit ==
    /\ Quiet
    /\ users = [u \in 1..2 |-> NewUserRow(0)]
    /\ chip_ledger = SignupLedgers(2)
    /\ cycles = [c \in {1} |-> [status |-> "OPEN", closed_at |-> NULL]]
    /\ candidate_links =
          [i \in 1..2 |-> [cycle_id |-> 1, submitted_by_user_id |-> i,
                           canonical_url |-> canonicalize_url(<<i, "">>)]]
    /\ picks = <<>>
    /\ click_events = {}

MarketAwardNext ==
    \/ TickHour
    \/ \E candidate_id \in 1..2 : RecordClick(candidate_id, 1, NULL)
    \/ SettleCallsStarted = 0 /\ SettleCycle(1, {})
    \/ \E min_age_hours \in 1..2, force \in BOOLEAN, done \in 0..2 :
            MarketApplyCurationRewards(1, min_age_hours, force, done)

SpecMarketAward == MarketAwardInit /\ [][MarketAwardNext]_vars

\* The hours since the cycle was closed.
HoursClosed(cycle_id) == NowStamp - cycles[cycle_id].closed_at

InsideWaitWindow(cycle_id, min_age_hours) ==
    /\ cycles[cycle_id].closed_at # NULL
    /\ HoursClosed(cycle_id) < min_age_hours

\* C38: MarketService.apply_curation_rewards never awards for a cycle that is
\* not SETTLED (it returns reason cycle_not_settled and changes nothing), and
\* with force = false never awards before min_age_hours have passed since
\* closed_at (reason wait_window, nothing changed); force = true skips the
\* wait window only, not the SETTLED requirement.
C38_AwardsOnlySettledAndAged ==
    [][\A call \in {award_hist'.market} :
          LET c == call.cycle_id
              unsettled == cycles[c].status # "SETTLED"
              waiting == ~call.force /\ InsideWaitWindow(c, call.min_age_hours)
              untouched == /\ curation_rewards' = curation_rewards
                           /\ chip_ledger' = chip_ledger
                           /\ users' = users
          IN  /\ curation_rewards' # curation_rewards => ~unsettled /\ ~waiting
              /\ (award_hist' # award_hist /\ unsettled)
                    => call.reason = "cycle_not_settled" /\ untouched
              /\ (award_hist' # award_hist /\ ~unsettled /\ waiting)
                    => call.reason = "wait_window" /\ untouched
              /\ call.reason = "ok" => ~unsettled /\ ~waiting]_vars

\* A forced call on the SETTLED cycle awarded inside the wait window.
C38_ForcedAwardInsideWindow ==
    /\ award_hist.market.force
    /\ award_hist.market.reason = "ok"
    /\ InsideWaitWindow(1, award_hist.market.min_age_hours)
    /\ has_curation_rewards(1)

\* ------------------------------------------------------------------ C39
\* The users with at least one pick in the cycle.
UsersWithPicks(cycle_id) == {u \in DOMAIN users : PicksOfUser(cycle_id, u) # <<>>}

\* A pick of the user is on a candidate recorded as a winner of the cycle.
PickedAWinner(cycle_id, user_id) ==
    \E candidate_id \in SeqRange(PicksOfUser(cycle_id, user_id)) :
        \E r \in cycle_results :
            /\ r.cycle_id = cycle_id /\ r.candidate_id = candidate_id /\ r.is_winner = 1

LedgerOfUser(led, user_id) == SelectSeq(led, LAMBDA e : e.user_id = user_id)

\* C39: the ranking settle_cycle returns has exactly one entry for every user
\* with at least one pick in the cycle and none for any other user; a user
\* with no winning pick has reward_chips 0 and correct_count 0 in it, and
\* settle_cycle writes no ledger entry for that user and leaves the balance.
C39_RankingCoversEveryPicker ==
    [][settle_returned' # settle_returned =>
        \A c \in {settle_returned'.cycle_id} :
          \A ranking \in {settle_returned'.ranking} :
            /\ {ranking[i].user_id : i \in 1..Len(ranking)} = UsersWithPicks(c)
            /\ Len(ranking) = Cardinality(UsersWithPicks(c))
            /\ \A i \in 1..Len(ranking) :
                  \A u \in {ranking[i].user_id} :
                     \E winners \in SUBSET DOMAIN candidate_links :
                        /\ winners = WinnersRecorded(c)'
                        /\ (SeqRange(PicksOfUser(c, u)) \cap winners = {})
                           => /\ ranking[i].reward_chips = 0
                              /\ ranking[i].correct_count = 0
                              /\ users'[u] = users[u]
                              /\ LedgerOfUser(chip_ledger', u)
                                    = LedgerOfUser(chip_ledger, u)]_vars

\* A settlement returned a ranking with a user who earned chips and a user
\* without a winning pick, while a third user had no picks.
C39_WinnerLoserAndAbsentee ==
    /\ settle_returned.cycle_id = 1
    /\ \E i, j \in 1..Len(settle_returned.ranking) :
          /\ settle_returned.ranking[i].reward_chips > 0
          /\ settle_returned.ranking[j].reward_chips = 0
          /\ settle_returned.ranking[j].correct_count = 0
          /\ ~PickedAWinner(1, settle_returned.ranking[j].user_id)
    /\ \E u \in DOMAIN users : PicksOfUser(1, u) = <<>>

\* ------------------------------------------------------------------ C40
PostA == [url |-> "post_a", published_at |-> 0, links |-> {<<1, "">>}]

PostB == [url |-> "post_b", published_at |-> 1, links |-> {<<2, "utm_source">>}]

\* What the feed holds when it is fetched: nothing, one post, two posts
\* newest first, one post listed twice.
Feeds == {<<>>, <<PostA>>, <<PostB>>, <<PostB, PostA>>, <<PostA, PostA>>}

\* Ingestion with or without an open cycle at the start; user 1 has picked
\* the first candidate of cycle 1.
SyncInit ==
    /\ Quiet
    /\ users = [u \in {1} |-> NewUserRow(0)]
    /\ chip_ledger = SignupLedgers(1)
    /\ \E nc \in 0..1 :
          /\ cycles = [c \in 1..nc |-> [status |-> "OPEN", closed_at |-> NULL]]
          /\ candidate_links =
                [i \in 1..(2 * nc) |-> [cycle_id |-> 1, submitted_by_user_id |-> 1,
                                       canonical_url |-> canonicalize_url(<<i, "">>)]]
          /\ picks = [i \in 1..nc |-> [cycle_id |-> 1, user_id |-> 1, ids |-> <<1>>]]
    /\ click_events = {}

SyncNext ==
    \/ TickHour
    \/ \E feed \in Feeds : Sync(feed)
    \/ \E feed \in Feeds : SyncFailsAtMark(feed)

SpecSync == SyncInit /\ [][SyncNext]_vars

\* The settlements the syncs have made, as (post, cycle) pairs.
SettlementsMade == sync_hist.settlements

OpenCycles == {c \in DOMAIN cycles : cycles[c].status = "OPEN"}

\* C40: across any sequence of ingestion syncs each source post triggers at
\* most one settlement and no cycle is settled by two different posts; a post
\* that is marked processed settles nothing in a later sync; a sync that finds
\* an open cycle and unseen posts settles that cycle and marks the posts
\* processed; and after every completed sync at least one cycle is OPEN.
C40_OneSettlementPerPost ==
    /\ [](\A i, j \in 1..Len(SettlementsMade) :
            i # j => /\ SettlementsMade[i].post_url # SettlementsMade[j].post_url
                     /\ SettlementsMade[i].cycle_id # SettlementsMade[j].cycle_id)
    /\ [][\A seen \in {source_posts}, made \in {Len(sync_hist.settlements)} :
            /\ \A k \in (made + 1)..Len(sync_hist'.settlements) :
                  sync_hist'.settlements[k].post_url \notin seen
            /\ sync_hist'.returned # sync_hist.returned
                  => \E c \in DOMAIN cycles' : cycles'[c].status = "OPEN"
            /\ (sync_hist'.returned # sync_hist.returned /\ OpenCycles # {})
                  => \A k \in 1..Len(sync_hist'.returned.settlements) :
                        /\ sync_hist'.returned.settlements[k].post_url \in source_posts'
                        /\ cycles'[sync_hist'.returned.settlements[k].cycle_id].status
                              = "SETTLED"]_vars

====
